---- MODULE Spec2Model ----
(***************************************************************************)
(* androsync: incremental backup of files from an Android device.          *)
(*                                                                         *)
(* The module models core/backup.py (BackupManager: planning against the   *)
(* local filesystem and the sequential transfer run with cooperative       *)
(* cancellation) and core/adb.py (find_media_files, pull_file and the      *)
(* batched pull_files_tar).  Paths are sequences of path segments; the     *)
(* device, the local filesystem and the outcomes of the remote commands    *)
(* are the environment and are chosen nondeterministically.                *)
(***************************************************************************)
EXTENDS Integers, Sequences, FiniteSets, TLC

\* ---------------------------------------------------------------- bounds
\* Local files have a size in 1..MaxSize (or are absent / not stat-able).
MaxSize == 2
\* Number of folders handed to one start_backup / analyze_folders call.
MaxFolders == 2
\* Number of cancel() calls another thread makes during one run.
MaxCancels == 1
\* Number of remote paths handed to one pull_files_tar call.
MaxTarFiles == 2
\* Number of files handed to one _check_files_multithread call.
MaxCheckFiles == 17
\* Number of path segments of a remote file below its storage root.
MaxRestLen == 2
\* Number of file records handed to one aggregate_files_to_folders call.
MaxAggFiles == 3

\* Number of lines of a listing output.
MaxLines == 2

\* ------------------------------------------------------------- utilities
IsPrefix(s, t) == Len(s) <= Len(t) /\ SubSeq(t, 1, Len(s)) = s

RECURSIVE SumSizes(_)
SumSizes(fs) == IF fs = <<>> THEN 0 ELSE Head(fs).size + SumSizes(Tail(fs))

Range(s) == {s[i] : i \in 1..Len(s)}

Min(a, b) == IF a <= b THEN a ELSE b

\* ------------------------------------------------------ the device (env)
\* The files the device holds during the whole behaviour ("remote files
\* unchanged"), in the order `find` prints them.  /sdcard is the device's
\* symlink to /storage/emulated/0, so the first and the fourth entry are the
\* same physical file seen through two paths.
DeviceListing ==
  << [path |-> <<"sdcard", "DCIM", "a.jpg">>,                   name |-> "a.jpg",     size |-> 1],
     [path |-> <<"sdcard", "DCIM", "b.JPG">>,                   name |-> "b.JPG",     size |-> 2],
     [path |-> <<"sdcard", "DCIM", "notes.txt">>,               name |-> "notes.txt", size |-> 1],
     [path |-> <<"storage", "emulated", "0", "DCIM", "a.jpg">>, name |-> "a.jpg",     size |-> 1],
     [path |-> <<"storage", "1234-5678", "DCIM", "a.jpg">>,     name |-> "a.jpg",     size |-> 2],
     [path |-> <<"storage", "emulated", "0", "Download", "README">>,
      name |-> "README", size |-> 1],
     [path |-> <<"storage", "emulated", "0", "Download", "report.pdf">>,
      name |-> "report.pdf", size |-> 2],
     [path |-> <<"storage", "emulated", "0", "Download", "notes.txt">>,
      name |-> "notes.txt", size |-> 1],
     [path |-> <<"storage", "emulated", "0", "Android", "media", "com.whatsapp", "x.mp4">>,
      name |-> "x.mp4", size |-> 2],
     [path |-> <<"storage", "emulated", "0", "Android", "data", "com.app", "cache.jpg">>,
      name |-> "cache.jpg", size |-> 1],
     [path |-> <<"storage", "emulated", "0", "Pictures", ".thumbnails", "t.jpg">>,
      name |-> "t.jpg", size |-> 1],
     [path |-> <<"storage", "emulated", "0", "Pictures", "c.png">>,
      name |-> "c.png", size |-> 1],
     [path |-> <<"storage", "1234-5678", "Music", "song.mp3">>,
      name |-> "song.mp3", size |-> 2],
     [path |-> <<"storage", "emulated", "0", "Android", "a.jpg">>,
      name |-> "a.jpg", size |-> 1] >>

\* The folders of a scan result of this device that the backup runs select
\* from (MediaFolder.path), in the order of the scan result.
ScannedFolders ==
  << <<"sdcard", "DCIM">>,
     <<"storage", "emulated", "0", "DCIM">>,
     <<"storage", "1234-5678", "DCIM">> >>

\* The folders of the scan result of the internal root of this device
\* (MediaFolder.path), for any categories.
PlanFolders ==
  { <<"storage", "emulated", "0", "DCIM">>,
    <<"storage", "emulated", "0", "Download">>,
    <<"storage", "emulated", "0", "Pictures">>,
    <<"storage", "emulated", "0", "Android">>,
    <<"storage", "emulated", "0", "Android", "media", "com.whatsapp">> }

\* The remote paths of the files under these folders.
DevicePaths ==
  {f.path : f \in {g \in Range(DeviceListing) :
                     \E i \in 1..Len(ScannedFolders) : IsPrefix(ScannedFolders[i], g.path)}}

\* The destination directory given to BackupManager.
Destination == <<"home", "user", "backup">>

\* ------------------------------------------------------ category tables
\* FILE_CATEGORIES[cat]['extensions']
CategoryExtensions(cat) ==
  CASE cat = "media" ->
         {".jpg", ".jpeg", ".png", ".gif", ".webp", ".heic", ".heif", ".bmp", ".raw",
          ".cr2", ".nef", ".arw", ".mp4", ".mkv", ".avi", ".mov", ".wmv", ".flv",
          ".webm", ".3gp", ".m4v"}
    [] cat = "documents" ->
         {".pdf", ".doc", ".docx", ".xls", ".xlsx", ".ppt", ".pptx", ".txt", ".odt",
          ".ods", ".odp", ".rtf", ".csv", ".md", ".json", ".xml", ".html", ".htm"}
    [] cat = "apk" -> {".apk", ".xapk", ".apkm"}
    [] OTHER -> {}

KnownCategories == {"media", "documents", "apk"}

ALL_KNOWN_EXTENSIONS == UNION {CategoryExtensions(c) : c \in KnownCategories}

\* File names are atomic strings; the tables below give what the string
\* operations of the code return for the names and name parts used here.
\* filename.split('.')
NameParts(name) ==
  CASE name = "a.jpg" -> <<"a", "jpg">>
    [] name = "b.JPG" -> <<"b", "JPG">>
    [] name = "b.jpg" -> <<"b", "jpg">>
    [] name = "c.png" -> <<"c", "png">>
    [] name = "t.jpg" -> <<"t", "jpg">>
    [] name = "cache.jpg" -> <<"cache", "jpg">>
    [] name = "x.mp4" -> <<"x", "mp4">>
    [] name = "notes.txt" -> <<"notes", "txt">>
    [] name = "report.pdf" -> <<"report", "pdf">>
    [] name = "app.apk" -> <<"app", "apk">>
    [] name = "song.mp3" -> <<"song", "mp3">>
    [] name = "archive.tar.gz" -> <<"archive", "tar", "gz">>
    [] name = "photo.jpg.bak" -> <<"photo", "jpg", "bak">>
    [] name = "x." -> <<"x", "">>
    [] name = ".nomedia" -> <<"", "nomedia">>
    [] name = ".jpg" -> <<"", "jpg">>
    [] OTHER -> <<name>>

\* s.lower()
lower(s) ==
  CASE s = "JPG" -> "jpg"
    [] s = "README" -> "readme"
    [] OTHER -> s

\* '.' + s
dot(s) ==
  CASE s = "jpg" -> ".jpg"
    [] s = "png" -> ".png"
    [] s = "mp4" -> ".mp4"
    [] s = "txt" -> ".txt"
    [] s = "pdf" -> ".pdf"
    [] s = "apk" -> ".apk"
    [] s = "mp3" -> ".mp3"
    [] s = "gz" -> ".gz"
    [] s = "bak" -> ".bak"
    [] s = "nomedia" -> ".nomedia"
    [] s = "JPG" -> ".JPG"
    [] OTHER -> "."

\* '.' in filename
has_dot(name) == Len(NameParts(name)) >= 2

\* filename.rsplit('.', 1)[-1]
Last(parts) == parts[Len(parts)]

last_part(name) == Last(NameParts(name))

\* scanner.py line 97:
\* '.' + filename.rsplit('.', 1)[-1].lower() if '.' in filename else ''
LowerExt(name) ==
  IF has_dot(name) THEN dot(lower(last_part(name))) ELSE ""

\* get_extensions_for_categories: <<extensions, include_other>>
get_extensions_for_categories(cats) ==
  << UNION {CategoryExtensions(c) : c \in (cats \cap KnownCategories)},
     "other" \in cats >>

\* is_file_in_categories lines 100-104, for ext and the result ec of
\* get_extensions_for_categories
ext_in_categories_MutOtherAll(ext, ec) ==
  \/ ext \in ec[1]
  \/ ec[2]

ext_in_categories(ext, ec) ==
  \/ ext \in ec[1]
  \/ ec[2] /\ ext \notin ALL_KNOWN_EXTENSIONS

is_file_in_categories(name, cats) ==
  ext_in_categories(LowerExt(name), get_extensions_for_categories(cats))

\* The categories a caller can select; none selected means the default.
SelectableCategories == {"media", "documents", "apk", "other"}

\* categories = categories or ['media']
DefaultCategories == {"media"}

\* categories.py lines 113-121: the extension of is_file_in_categories there
categories_ext(name) ==
  IF ~has_dot(name) THEN ""
  ELSE dot(lower(last_part(name)))

\* categories.py is_file_in_categories (lines 111-129)
categories_is_file_in_categories(name, cats) ==
  LET ext == categories_ext(name)
      ec  == get_extensions_for_categories(cats)
  IN  \/ ext # "" /\ ext \in ec[1]
      \/ ec[2] /\ (ext = "" \/ ext \notin ALL_KNOWN_EXTENSIONS)

IMAGE_EXTENSIONS ==
  {".jpg", ".jpeg", ".png", ".gif", ".webp", ".heic", ".heif", ".bmp", ".raw", ".cr2",
   ".nef", ".arw"}

VIDEO_EXTENSIONS == {".mp4", ".mkv", ".avi", ".mov", ".wmv", ".flv", ".webm", ".3gp", ".m4v"}

\* is_media_file: "photo", "video" or "" (not a media file)
is_media_file(name) ==
  LET ext == dot(IF has_dot(name) THEN lower(last_part(name)) ELSE "")
  IN  IF ext \in IMAGE_EXTENSIONS THEN "photo"
      ELSE IF ext \in VIDEO_EXTENSIONS THEN "video"
      ELSE ""

\* SKIP_DIRECTORIES
SKIP_DIRECTORIES ==
  << <<"Android", "data">>, <<"Android", "obb">>, <<".thumbnails">>, <<".cache">>,
     <<"cache">>, <<".trash">>, <<"lost+found">> >>

\* EXPAND_DIRECTORIES
EXPAND_DIRECTORIES == { <<"Android", "media">> }

\* --------------------------------------------------------------- adb.py
\* \( -iname "*.<ext_clean>" -o ... \) with ext_clean = ext.lstrip('.'), one
\* pattern per extension: an extension of the tables matches the names that
\* end, whatever the case, in that extension; for '*' the pattern is "*.*",
\* which matches the names that hold a dot.
iname_matches(name, extensions) ==
  /\ has_dot(name)
  /\ \/ "*" \in extensions
     \/ dot(lower(last_part(name))) \in extensions

\* -path "*/<pattern>/*" -prune: the path holds the segments of the pattern,
\* followed by at least one more segment
path_pruned(path, pattern) ==
  \E i \in 1..Len(path) :
    /\ i + Len(pattern) <= Len(path)
    /\ SubSeq(path, i, i + Len(pattern) - 1) = pattern

\* find_media_files: one `find` under storage_root; `ok` is the outcome of the
\* remote command (FALSE: shell_command raised ADBError, the result is []).
\* The records are those of the regular files under the root that are not
\* pruned and whose name matches one of the -iname patterns.
find_media_files_MutFailKeepsOutput(root, extensions, exclude_patterns, ok) ==
  SelectSeq(DeviceListing,
            LAMBDA f : /\ IsPrefix(root, f.path)
                       /\ ~\E k \in 1..Len(exclude_patterns) :
                             path_pruned(f.path, exclude_patterns[k])
                       /\ iname_matches(f.name, extensions))

find_media_files(root, extensions, exclude_patterns, ok) ==
  IF ~ok THEN <<>>
  ELSE SelectSeq(DeviceListing,
                 LAMBDA f : /\ IsPrefix(root, f.path)
                            /\ ~\E k \in 1..Len(exclude_patterns) :
                                  path_pruned(f.path, exclude_patterns[k])
                            /\ iname_matches(f.name, extensions))

\* get_all_media_files(folder, categories)
scan_extensions_for(ec) == IF ec[2] THEN {"*"} ELSE ec[1]

\* get_all_media_files on this device, as a function of the folder of the scan
\* result, of the categories and of the outcome of the remote command
get_all_media_files_of ==
  [folder \in Range(ScannedFolders) \cup PlanFolders,
   cats \in {c : c \in SUBSET SelectableCategories},
   ok \in BOOLEAN |->
     SelectSeq(find_media_files(folder,
                                scan_extensions_for(get_extensions_for_categories(cats)),
                                SKIP_DIRECTORIES, ok),
               LAMBDA f : is_file_in_categories(f.name, cats))]

get_all_media_files(folder, cats, ok) == get_all_media_files_of[folder, cats, ok]

\* ----------------------------------------------------------- scanner.py
\* relative.split('/') for the path of a record (lines 294-300): the segments
\* below the storage root; a path outside the root is kept whole and its
\* leading '/' gives an empty first part
relative_parts(path, root) ==
  IF IsPrefix(root, path)
    THEN IF Len(path) = Len(root) THEN <<"">> ELSE SubSeq(path, Len(root) + 1, Len(path))
    ELSE <<"">> \o path

\* should_expand_directory(relative_path)
should_expand_directory_MutNever(relative_path) == FALSE

should_expand_directory(relative_path) ==
  \E expand \in EXPAND_DIRECTORIES :
    \/ relative_path = expand
    \/ IsPrefix(expand, relative_path) /\ Len(relative_path) > Len(expand)

\* lines 302-310: the grouping folder of a record
top_level_of(parts) ==
  IF Len(parts) >= 3 /\ should_expand_directory(SubSeq(parts, 1, 2))
    THEN SubSeq(parts, 1, 3)
    ELSE IF Len(parts) >= 1 THEN <<parts[1]>> ELSE parts

\* `top_level_path not in folder_stats`: the position of the entry of
\* folder_stats with that key, 0 if there is none
stats_index_MutLastOnly(stats, top_level_path) ==
  IF stats # <<>> /\ stats[Len(stats)].path = top_level_path THEN Len(stats) ELSE 0

stats_index(stats, top_level_path) ==
  IF \E i \in 1..Len(stats) : stats[i].path = top_level_path
    THEN CHOOSE i \in 1..Len(stats) : stats[i].path = top_level_path
    ELSE 0

\* lines 312-334: one record added to folder_stats (a dict: the entries stay
\* in the order in which their keys were first seen)
add_to_stats_MutSizeOnce(stats, file_info, root) ==
  LET top_level == top_level_of(relative_parts(file_info.path, root))
      top_level_path == root \o top_level
      i == stats_index(stats, top_level_path)
      media_type == is_media_file(file_info.name)
      fresh == [path |-> top_level_path, name |-> top_level, files |-> 0, photos |-> 0,
                videos |-> 0, size |-> 0, file_list |-> <<>>]
      st == IF i = 0 THEN Append(stats, fresh) ELSE stats
      k == IF i = 0 THEN Len(st) ELSE i
  IN  [st EXCEPT ![k] =
         [@ EXCEPT !.files = @ + 1,
                   !.size = IF i = 0 THEN @ + file_info.size ELSE @,
                   !.file_list = Append(@, file_info),
                   !.photos = IF media_type = "photo" THEN @ + 1 ELSE @,
                   !.videos = IF media_type = "video" THEN @ + 1 ELSE @]]

add_to_stats(stats, file_info, root) ==
  LET top_level == top_level_of(relative_parts(file_info.path, root))
      top_level_path == root \o top_level
      i == stats_index(stats, top_level_path)
      media_type == is_media_file(file_info.name)
      fresh == [path |-> top_level_path, name |-> top_level, files |-> 0, photos |-> 0,
                videos |-> 0, size |-> 0, file_list |-> <<>>]
      st == IF i = 0 THEN Append(stats, fresh) ELSE stats
      k == IF i = 0 THEN Len(st) ELSE i
  IN  [st EXCEPT ![k] =
         [@ EXCEPT !.files = @ + 1,
                   !.size = @ + file_info.size,
                   !.file_list = Append(@, file_info),
                   !.photos = IF media_type = "photo" THEN @ + 1 ELSE @,
                   !.videos = IF media_type = "video" THEN @ + 1 ELSE @]]

\* lines 290-334: `for file_info in files`
RECURSIVE folder_stats(_, _, _)
folder_stats(file_list, root, stats) ==
  IF file_list = <<>> THEN stats
  ELSE folder_stats(Tail(file_list), root, add_to_stats(stats, Head(file_list), root))

\* MediaFolder.total_count
total_count(folder) == folder.file_count

\* list.sort(key=lambda f: f.total_count, reverse=True): a stable sort;
\* folders of equal count keep their order
RECURSIVE sort_by_total_count_desc(_)
sort_by_total_count_desc_MutNoSort(folder_list) == folder_list

sort_by_total_count_desc(folder_list) ==
  IF folder_list = <<>> THEN <<>>
  ELSE LET n == Len(folder_list)
           sorted == sort_by_total_count_desc(SubSeq(folder_list, 1, n - 1))
           x == folder_list[n]
           k == Cardinality({i \in 1..Len(sorted) : total_count(sorted[i]) >= total_count(x)})
       IN  SubSeq(sorted, 1, k) \o <<x>> \o SubSeq(sorted, k + 1, Len(sorted))

\* sum(f.<field> for f in folders)
RECURSIVE SumField(_, _)
SumField(seq, field) ==
  IF seq = <<>> THEN 0 ELSE Head(seq)[field] + SumField(Tail(seq), field)

\* aggregate_files_to_folders(files, storage_root, storage_type)
aggregate_files_to_folders(file_list, root, storage_type) ==
  LET stats == folder_stats(file_list, root, <<>>)
      folder_list ==
        [i \in 1..Len(stats) |->
           [path |-> stats[i].path, name |-> stats[i].name,
            file_count |-> stats[i].files, photo_count |-> stats[i].photos,
            video_count |-> stats[i].videos, total_size |-> stats[i].size,
            storage_type |-> storage_type, storage_root |-> root,
            files |-> stats[i].file_list]]
  IN  sort_by_total_count_desc(folder_list)

\* ------------------------------------------------------------ backup.py
\* 'sdcard_' + storage_name
SdcardSegment(storage_name) ==
  CASE storage_name = "1234-5678" -> "sdcard_1234-5678"
    [] storage_name = "ABCD-EF01" -> "sdcard_ABCD-EF01"
    [] storage_name = "emulated" -> "sdcard_emulated"
    [] OTHER -> "sdcard_"

\* BackupManager._get_local_path
get_local_path_MutAllInternal(remote_path) ==
  LET n == Len(remote_path)
      relative_path ==
        IF n >= 2 /\ remote_path[1] = "sdcard"
          THEN [abs |-> FALSE, segs |-> <<"internal">> \o SubSeq(remote_path, 2, n)]
        ELSE IF n >= 4 /\ SubSeq(remote_path, 1, 3) = <<"storage", "emulated", "0">>
          THEN [abs |-> FALSE, segs |-> <<"internal">> \o SubSeq(remote_path, 4, n)]
        ELSE IF n >= 2 /\ remote_path[1] = "storage"
          THEN IF n >= 3
                 THEN [abs |-> FALSE, segs |-> <<"internal">> \o SubSeq(remote_path, 3, n)]
                 ELSE [abs |-> FALSE, segs |-> remote_path]
        ELSE [abs |-> TRUE, segs |-> remote_path]
  IN  IF relative_path.abs THEN relative_path.segs ELSE Destination \o relative_path.segs

get_local_path(remote_path) ==
  LET n == Len(remote_path)
      relative_path ==
        IF n >= 2 /\ remote_path[1] = "sdcard"
          THEN [abs |-> FALSE, segs |-> <<"internal">> \o SubSeq(remote_path, 2, n)]
        ELSE IF n >= 4 /\ SubSeq(remote_path, 1, 3) = <<"storage", "emulated", "0">>
          THEN [abs |-> FALSE, segs |-> <<"internal">> \o SubSeq(remote_path, 4, n)]
        ELSE IF n >= 2 /\ remote_path[1] = "storage"
          THEN IF n >= 3
                 THEN [abs |-> FALSE,
                       segs |-> <<SdcardSegment(remote_path[2])>> \o SubSeq(remote_path, 3, n)]
                 ELSE [abs |-> FALSE, segs |-> remote_path]
        ELSE [abs |-> TRUE, segs |-> remote_path]
  IN  \* os.path.join(destination, relative_path): an absolute second part wins
      IF relative_path.abs THEN relative_path.segs ELSE Destination \o relative_path.segs

\* The local paths a plan can name: those of the device's files of the
\* categories of the run under the folders the runs select from.
LocalPaths ==
  {get_local_path(p) :
     p \in {f.path : f \in {g \in Range(DeviceListing) :
                                g.path \in DevicePaths
                                  /\ is_file_in_categories(g.name, DefaultCategories)}}}

\* Values of the local filesystem at a path.
Absent == 0
NoAccess == -1
LocalValues == {Absent, NoAccess} \cup (1..MaxSize)

\* BackupManager._check_local_file: os.stat raises OSError for an absent or
\* inaccessible path.
check_local_file_MutAnySize(fs, local_path, expected_size) ==
  fs[local_path] \notin {Absent, NoAccess}

check_local_file(fs, local_path, expected_size) ==
  IF fs[local_path] \in {Absent, NoAccess} THEN FALSE
  ELSE fs[local_path] = expected_size

\* BackupManager._check_files_multithread: the set of the local paths whose
\* check returned true (files: sequence of <<local_path, expected_size>>).
check_files_multithread(fs, files) ==
  {files[i][1] : i \in {j \in 1..Len(files) : check_local_file(fs, files[j][1], files[j][2])}}

\* analyze_folder lines 160-165: files_with_paths, the records of the listing
\* with their local paths
files_with_paths_of(all_files) ==
  [i \in 1..Len(all_files) |->
     [remote_path |-> all_files[i].path,
      local_path  |-> get_local_path(all_files[i].path),
      size        |-> all_files[i].size]]

\* analyze_folder lines 168-171: files_to_check
files_to_check_of(files_with_paths) ==
  [i \in 1..Len(files_with_paths) |->
     <<files_with_paths[i].local_path, files_with_paths[i].size>>]

\* analyze_folder lines 176-191: the files split by existing_paths
split_by_existing_MutAllToSync(files_with_paths, existing_paths) ==
  << files_with_paths,
     SelectSeq(files_with_paths, LAMBDA f : f.local_path \in existing_paths) >>

split_by_existing(files_with_paths, existing_paths) ==
  << SelectSeq(files_with_paths, LAMBDA f : f.local_path \notin existing_paths),
     SelectSeq(files_with_paths, LAMBDA f : f.local_path \in existing_paths) >>

\* analyze_folder lines 168-193 for the files_with_paths of a folder
analyze_files(fs, files_with_paths) ==
  split_by_existing(files_with_paths,
                    check_files_multithread(fs, files_to_check_of(files_with_paths)))

\* BackupManager.analyze_folder: <<to_sync, already_exist>>
analyze_folder(fs, folder, cats, ok) ==
  analyze_files(fs, files_with_paths_of(get_all_media_files(folder, cats, ok)))

\* BackupManager.analyze_folders: the folders in order, the lists concatenated.
\* oks[i] is the outcome of the listing of folder i.
RECURSIVE analyze_folders(_, _, _, _)
analyze_folders(fs, flds, cats, oks) ==
  IF flds = <<>> THEN << <<>>, <<>> >>
  ELSE LET one  == analyze_folder(fs, Head(flds), cats, Head(oks))
           rest == analyze_folders(fs, Tail(flds), cats, Tail(oks))
       IN  << one[1] \o rest[1], one[2] \o rest[2] >>

\* The remote commands one analyze_folders call issues: analyze_folder calls
\* get_all_media_files (backup.py line 160), which calls find_media_files,
\* which runs one `find` on the device through shell_command, for each folder.
remote_commands_of_planning(flds) == [i \in 1..Len(flds) |-> [find |-> flds[i]]]

\* ------------------------------------------------------------ the state
VARIABLES
  localFS,       \* the local filesystem: LocalPaths -> LocalValues
  folders,       \* the folders given to start_backup (sequence of folder paths)
  pc,            \* position of the thread running start_backup
  cancelled,     \* BackupManager._cancelled
  to_sync,       \* the plan of the run: files to transfer
  already_exist, \* the plan of the run: files already present
  idx,           \* number of entries of to_sync the loop has gone through
  progress,      \* the BackupProgress object of the run
  callbacks,     \* the progress snapshots given to progress_callback, in order
  attempts,      \* the files the loop has tried, in order, with the outcome
  cancelCalls,   \* number of cancel() calls made so far
  cancelAt,      \* idx at the first cancel() made during the transfer loop, or -1
  replan,        \* result of analyze_folders called after the run, or <<>>
  remoteCommands, \* the remote shell commands planning has issued: the roots of the `find`s
  tpc,           \* position of the thread running pull_files_tar
  remote_paths,  \* pull_files_tar: its argument
  path_mapping,  \* pull_files_tar: the remote paths path_mapping has a key for
  batch_start,   \* pull_files_tar: start of the current batch (0-based)
  success,       \* pull_files_tar: success counter
  failed,        \* pull_files_tar: failed counter
  members,       \* pull_files_tar: regular-file members of the archive of the batch
  cursor,        \* pull_files_tar: position in members / in the batch
  tarLog,        \* pull_files_tar: the bulk transfers issued, with their outcome
  tarPulls,      \* pull_files_tar: the pull_file calls issued, in order
  pool,          \* the state of one _check_files_multithread call
  pathCall,      \* the state of one _get_local_path call
  catCall,       \* the state of one is_file_in_categories call
  aggCall,       \* the state of one aggregate_files_to_folders call
  scan,          \* the state of one scan_media_folders call
  parse,         \* the state of the parsing of one listing output
  discover,      \* the state of one get_storage_roots call
  planCall,      \* the state of one analyze_folders call on folders of a scan result
  worker         \* the state of one BackupWorker

\* _check_files_multithread
cpc == pool.cpc              \* position of the thread running it
files == pool.files          \* its argument, <<local_path, expected_size>>s
submitted == pool.submitted  \* number of executor.submit calls made
threads == pool.threads      \* number of worker threads the executor has created
running == pool.running      \* per <<local_path, expected_size>>: checks a worker is running
finished == pool.finished    \* per <<local_path, expected_size>>: futures done, not yet given by as_completed
yielded == pool.yielded      \* per <<local_path, expected_size>>: futures as_completed has given
existing == pool.existing    \* the set `existing`

\* _get_local_path
dpc == pathCall.dpc                  \* position of the call
remote_root == pathCall.remote_root  \* the storage root the remote file lies under
remote_rest == pathCall.remote_rest  \* the remote path below the storage root
local_path == pathCall.local_path    \* the result

\* is_file_in_categories
kpc == catCall.kpc                \* position of the call
filename == catCall.filename      \* the file name
categories == catCall.categories  \* the selected categories
verdict == catCall.verdict        \* the results of scanner.py and of categories.py

\* aggregate_files_to_folders
apc == aggCall.apc                    \* position of the call
agg_files == aggCall.agg_files        \* the file records
storage_root == aggCall.storage_root  \* the storage root
agg_folders == aggCall.agg_folders    \* the result

\* scan_media_folders
spc == scan.spc                          \* position of the thread running it
storage_roots == scan.storage_roots      \* the roots to scan, in the order of the dict
scan_categories == scan.scan_categories  \* the selected categories
root_idx == scan.root_idx                \* number of roots the loop has gone through
listings == scan.listings                \* per root gone through: the outcome of its listing and the files kept
all_folders == scan.all_folders          \* all_folders
scan_result == scan.scan_result          \* the ScanResult returned, or <<>>

\* find_media_files, the parsing of the output
ppc == parse.ppc                      \* position of the call
printed_lines == parse.printed_lines  \* the lines the remote command has printed
parsed_files == parse.parsed_files    \* files

\* get_storage_roots
gpc == discover.gpc                          \* position of the call
device == discover.device                    \* the device: links, directories, /storage
roots_map == discover.roots                  \* roots, in the order of insertion
seen_real_paths == discover.seen_real_paths  \* seen_real_paths
line_idx == discover.line_idx                \* lines of `ls` the loop has gone through
real_path == discover.real_path              \* real_path of the current entry
probes == discover.probes                    \* the outcome of each remote command, in order

\* analyze_folders for folders selected from a scan result
qpc == planCall.qpc                    \* position of the call
plan_categories == planCall.plan_categories  \* categories of the scan and of the plan
scanned == planCall.scanned            \* the folders of the scan result
selected == planCall.selected          \* the folders given to analyze_folders
local_tree == planCall.local_tree      \* the local filesystem below the destination
planned == planCall.plan               \* <<all_to_sync, all_exist>>

\* BackupWorker
wpc == worker.wpc                            \* position of the worker thread
worker_folders == worker.worker_folders      \* BackupWorker.folders
worker_categories == worker.worker_categories  \* BackupWorker.categories
manager == worker.manager                    \* BackupWorker.manager: "none" or a BackupManager
manager_cancelled == worker.manager_cancelled  \* BackupWorker.manager._cancelled
cancel_log == worker.cancel_log              \* the BackupWorker.cancel() calls, in order
progress_signals == worker.progress_signals  \* the progress signals emitted
finished_signals == worker.finished_signals  \* the finished signals emitted

varsB == <<localFS, folders, pc, cancelled, to_sync, already_exist, idx, progress,
           callbacks, attempts, cancelCalls, cancelAt, replan, remoteCommands>>
varsT == <<tpc, remote_paths, path_mapping, batch_start, success, failed, members,
           cursor, tarLog, tarPulls>>
varsP == <<pool>>
varsL == <<pathCall>>
varsC == <<catCall>>
varsA == <<aggCall>>
varsS == <<scan>>
varsF == <<parse>>
varsG == <<discover>>
varsQ == <<planCall>>
varsW == <<worker>>
vars == <<varsB, varsT, varsP, varsL, varsC, varsA, varsS, varsF, varsG, varsQ, varsW>>
\* the variables other than those of start_backup, of pull_files_tar, of
\* _check_files_multithread, of _get_local_path, of is_file_in_categories, of
\* aggregate_files_to_folders, of scan_media_folders
varsNotB == <<varsT, varsP, varsL, varsC, varsA, varsS, varsF, varsG, varsQ, varsW>>
varsNotT == <<varsB, varsP, varsL, varsC, varsA, varsS, varsF, varsG, varsQ, varsW>>
varsNotP == <<varsB, varsT, varsL, varsC, varsA, varsS, varsF, varsG, varsQ, varsW>>
varsNotL == <<varsB, varsT, varsP, varsC, varsA, varsS, varsF, varsG, varsQ, varsW>>
varsNotC == <<varsB, varsT, varsP, varsL, varsA, varsS, varsF, varsG, varsQ, varsW>>
varsNotA == <<varsB, varsT, varsP, varsL, varsC, varsS, varsF, varsG, varsQ, varsW>>
varsNotS == <<varsB, varsT, varsP, varsL, varsC, varsA, varsF, varsG, varsQ, varsW>>
varsNotF == <<varsB, varsT, varsP, varsL, varsC, varsA, varsS, varsG, varsQ, varsW>>
varsNotG == <<varsB, varsT, varsP, varsL, varsC, varsA, varsS, varsF, varsQ, varsW>>
varsNotQ == <<varsB, varsT, varsP, varsL, varsC, varsA, varsS, varsF, varsG, varsW>>
varsNotW == <<varsB, varsT, varsP, varsL, varsC, varsA, varsS, varsF, varsG, varsQ>>

\* BackupProgress.error_message: None, or the message of an exception, which
\* names the file it was raised for (kind "adb": str(ADBError), kind "fs":
\* "File system error: ...").
NoMessage == [kind |-> "none", file |-> 0]

\* No BackupProgress object exists before start_backup creates it.
NoProgress ==
  [total_files |-> 0, completed_files |-> 0, skipped_files |-> 0, failed_files |-> 0,
   current_file |-> "", total_bytes |-> 0, completed_bytes |-> 0, skipped_bytes |-> 0,
   status |-> "pending", error_message |-> NoMessage]

\* BackupProgress.pending_files
pending_files(p) == p.total_files - p.completed_files - p.skipped_files - p.failed_files

\* The folder selections: the user picks some folders of the scan result
\* and they are handed over in the order of the scan result
\* ([f for f in result.folders if f.name in selected_folders]).
RECURSIVE Pick(_, _)
Pick(fs, chosen) ==
  IF fs = <<>> THEN <<>>
  ELSE (IF Head(fs) \in chosen THEN <<Head(fs)>> ELSE <<>>) \o Pick(Tail(fs), chosen)

FolderSelections ==
  {Pick(ScannedFolders, chosen) :
     chosen \in {c \in SUBSET Range(ScannedFolders) : c # {} /\ Cardinality(c) <= MaxFolders}}

TarIdle ==
  /\ tpc = "idle" /\ remote_paths = <<>> /\ path_mapping = {} /\ batch_start = 0
  /\ success = 0 /\ failed = 0 /\ members = <<>> /\ cursor = 0
  /\ tarLog = <<>> /\ tarPulls = <<>>

PathIdle ==
  pathCall = [dpc |-> "idle", remote_root |-> <<>>, remote_rest |-> <<>>, local_path |-> <<>>]

CatIdle ==
  catCall = [kpc |-> "idle", filename |-> "", categories |-> {}, verdict |-> <<>>]

AggIdle ==
  aggCall = [apc |-> "idle", agg_files |-> <<>>, storage_root |-> <<>>, agg_folders |-> <<>>]

ScanIdle ==
  scan = [spc |-> "idle", storage_roots |-> <<>>, scan_categories |-> {}, root_idx |-> 0,
          listings |-> <<>>, all_folders |-> <<>>, scan_result |-> <<>>]

PoolIdle ==
  pool = [cpc |-> "idle", files |-> <<>>, submitted |-> 0, threads |-> 0,
          running |-> <<>>, finished |-> <<>>, yielded |-> <<>>, existing |-> {}]

WorkerIdle ==
  worker = [wpc |-> "idle", worker_folders |-> <<>>, worker_categories |-> {}, manager |-> "none", manager_cancelled |-> FALSE, cancel_log |-> <<>>, progress_signals |-> <<>>, finished_signals |-> <<>>]

PlanIdle ==
  planCall = [qpc |-> "idle", plan_categories |-> {}, scanned |-> <<>>, selected |-> <<>>, local_tree |-> <<>>, plan |-> <<>>]

RootsIdle ==
  discover = [gpc |-> "idle", device |-> <<>>, roots |-> <<>>, seen_real_paths |-> {}, line_idx |-> 0, real_path |-> <<>>, probes |-> <<>>]

ParseIdle ==
  parse = [ppc |-> "idle", printed_lines |-> <<>>, parsed_files |-> <<>>]

\* BackupManager(destination) is about to be called; the local tree holds
\* anything.
Init ==
  /\ localFS \in [LocalPaths -> LocalValues]
  /\ folders \in FolderSelections
  /\ pc = "new"
  /\ cancelled = FALSE
  /\ to_sync = <<>> /\ already_exist = <<>> /\ idx = 0
  /\ progress = NoProgress
  /\ callbacks = <<>> /\ attempts = <<>>
  /\ cancelCalls = 0 /\ cancelAt = -1
  /\ replan = <<>>
  /\ remoteCommands = <<>>
  /\ TarIdle
  /\ PoolIdle
  /\ PathIdle /\ CatIdle /\ AggIdle /\ ScanIdle
  /\ WorkerIdle
  /\ PlanIdle
  /\ RootsIdle
  /\ ParseIdle

\* ------------------------------------------------- BackupManager.__init__
\* lines 79-84: _cancelled = False, os.makedirs(destination, exist_ok=True);
\* when the destination cannot be created makedirs raises OSError, which
\* leaves the constructor: the caller gets no BackupManager
Construct ==
  /\ pc = "new"
  /\ cancelled' = FALSE
  /\ \E makedirs_ok \in BOOLEAN :
       pc' = IF makedirs_ok THEN "idle" ELSE "init_failed"
  /\ UNCHANGED <<localFS, folders, to_sync, already_exist, idx, progress, callbacks,
                 attempts, cancelCalls, cancelAt, replan, remoteCommands,
                 varsNotB>>

\* ------------------------------------------------- start_backup, by steps
\* line 228: self._cancelled = False
Begin ==
  /\ pc = "idle"
  /\ cancelled' = FALSE
  /\ pc' = "analyze"
  /\ UNCHANGED <<localFS, folders, to_sync, already_exist, idx, progress, callbacks,
                 attempts, cancelCalls, cancelAt, replan, remoteCommands,
                 varsNotB>>

\* lines 231-250: the plan, the progress object, the first callback
Analyze ==
  /\ pc = "analyze"
  /\ \E oks \in [1..Len(folders) -> BOOLEAN] :
       LET plan == analyze_folders(localFS, folders, DefaultCategories, oks)
           p == [total_files     |-> Len(plan[1]) + Len(plan[2]),
                 completed_files |-> 0,
                 skipped_files   |-> Len(plan[2]),
                 failed_files    |-> 0,
                 current_file    |-> "",
                 total_bytes     |-> SumSizes(plan[1]) + SumSizes(plan[2]),
                 completed_bytes |-> 0,
                 skipped_bytes   |-> SumSizes(plan[2]),
                 status          |-> "in_progress",
                 error_message   |-> NoMessage]
       IN  /\ to_sync' = plan[1]
           /\ already_exist' = plan[2]
           /\ progress' = p
           /\ callbacks' = Append(callbacks, p)
  /\ remoteCommands' = remoteCommands \o remote_commands_of_planning(folders)
  /\ idx' = 0
  /\ pc' = "loop"
  /\ UNCHANGED <<localFS, folders, cancelled, attempts, cancelCalls, cancelAt, replan,
                 varsNotB>>

\* line 231, when the adb executable cannot be started for the `find` of
\* folder number k: subprocess.run raises FileNotFoundError, shell_command
\* (adb.py 121-136) handles TimeoutExpired only and find_media_files (adb.py
\* 407-410) ADBError only, so the error leaves analyze_folders and
\* start_backup; the commands of the folders before were issued
AnalyzeRaises ==
  /\ pc = "analyze"
  /\ \E k \in 1..Len(folders) :
       remoteCommands' = remoteCommands
                           \o SubSeq(remote_commands_of_planning(folders), 1, k - 1)
  /\ pc' = "raised"
  /\ UNCHANGED <<localFS, folders, cancelled, to_sync, already_exist, idx, progress,
                 callbacks, attempts, cancelCalls, cancelAt, replan,
                 varsNotB>>

\* os.path.basename(remote_path)
basename(remote_path) == remote_path[Len(remote_path)]

\* line 253, `for file_to_sync in to_sync`: the entry the loop takes after it
\* has gone through n entries, and its number
NextEntryMutReversed(ts, n) == Len(ts) - n

NextEntry(ts, n) == n + 1

\* lines 253-261: the loop head: the next entry, the cancellation check,
\* current_file and the callback before the pull
LoopHead ==
  /\ pc = "loop"
  /\ IF idx >= Len(to_sync)
       THEN /\ pc' = "final"
            /\ UNCHANGED <<progress, callbacks>>
       ELSE IF cancelled
         THEN /\ progress' = [progress EXCEPT !.status = "cancelled"]
              /\ pc' = "final"
              /\ UNCHANGED callbacks
         ELSE LET p == [progress EXCEPT
                          !.current_file = basename(to_sync[NextEntry(to_sync, idx)].remote_path)]
              IN  /\ progress' = p
                  /\ callbacks' = Append(callbacks, p)
                  /\ pc' = "pull"
  /\ UNCHANGED <<localFS, folders, cancelled, to_sync, already_exist, idx, attempts,
                 cancelCalls, cancelAt, replan, remoteCommands,
                 varsNotB>>

\* The outcomes of lines 263-285 for one file: os.makedirs raises OSError
\* ("oserror"), pull_file returns True ("ok") or False ("false"), pull_file
\* raises ADBError ("adberror").
PullOutcomes == {"ok", "false", "adberror", "oserror"}

\* lines 274-285: the progress object after the outcome for entry number n
AfterPullMutFalseUncounted(p, file, n, outcome) ==
  CASE outcome = "ok" ->
         [p EXCEPT !.completed_files = @ + 1, !.completed_bytes = @ + file.size]
    [] outcome = "false" -> p
    [] outcome = "adberror" ->
         [p EXCEPT !.failed_files = @ + 1, !.error_message = [kind |-> "adb", file |-> n]]
    [] outcome = "oserror" ->
         [p EXCEPT !.failed_files = @ + 1, !.error_message = [kind |-> "fs", file |-> n]]

AfterPullMutBytesOnFailure(p, file, n, outcome) ==
  CASE outcome = "ok" ->
         [p EXCEPT !.completed_files = @ + 1, !.completed_bytes = @ + file.size]
    [] outcome = "false" ->
         [p EXCEPT !.failed_files = @ + 1, !.completed_bytes = @ + file.size]
    [] outcome = "adberror" ->
         [p EXCEPT !.failed_files = @ + 1, !.error_message = [kind |-> "adb", file |-> n]]
    [] outcome = "oserror" ->
         [p EXCEPT !.failed_files = @ + 1, !.error_message = [kind |-> "fs", file |-> n]]

AfterPull(p, file, n, outcome) ==
  CASE outcome = "ok" ->
         [p EXCEPT !.completed_files = @ + 1, !.completed_bytes = @ + file.size]
    [] outcome = "false" ->
         [p EXCEPT !.failed_files = @ + 1]
    [] outcome = "adberror" ->
         [p EXCEPT !.failed_files = @ + 1, !.error_message = [kind |-> "adb", file |-> n]]
    [] outcome = "oserror" ->
         [p EXCEPT !.failed_files = @ + 1, !.error_message = [kind |-> "fs", file |-> n]]

\* lines 263-288: one file: directory, pull, counters, callback.  A pull that
\* returns True has written the local file with the size of the record.
Pull ==
  /\ pc = "pull"
  /\ \E outcome \in PullOutcomes :
       LET n == NextEntry(to_sync, idx)
           file == to_sync[n]
           p == AfterPull(progress, file, n, outcome)
       IN  /\ progress' = p
           /\ callbacks' = Append(callbacks, p)
           /\ attempts' = Append(attempts, [entry |-> n, file |-> file, outcome |-> outcome])
           /\ localFS' = IF outcome = "ok"
                           THEN [localFS EXCEPT ![file.local_path] = file.size]
                           ELSE localFS
  /\ idx' = idx + 1
  /\ pc' = "loop"
  /\ UNCHANGED <<folders, cancelled, to_sync, already_exist, cancelCalls, cancelAt, replan, remoteCommands,
                 varsNotB>>

\* lines 291-299: the final status, current_file cleared, the last callback
Final ==
  /\ pc = "final"
  /\ LET p == [progress EXCEPT !.status = IF ~cancelled THEN "completed" ELSE @,
                               !.current_file = ""]
     IN  /\ progress' = p
         /\ callbacks' = Append(callbacks, p)
  /\ pc' = "returned"
  /\ UNCHANGED <<localFS, folders, cancelled, to_sync, already_exist, idx, attempts,
                 cancelCalls, cancelAt, replan, remoteCommands,
                 varsNotB>>

\* BackupManager.cancel, called by another thread at any moment of the run
Cancel ==
  /\ pc \in {"analyze", "loop", "pull", "final"}
  /\ cancelCalls < MaxCancels
  /\ cancelled' = TRUE
  /\ cancelCalls' = cancelCalls + 1
  /\ cancelAt' = IF cancelAt = -1 /\ pc \in {"loop", "pull"} /\ idx < Len(to_sync)
                   THEN idx ELSE cancelAt
  /\ UNCHANGED <<localFS, folders, pc, to_sync, already_exist, idx, progress, callbacks,
                 attempts, replan, remoteCommands,
                 varsNotB>>

\* analyze_folders called again, for the same folders and destination, after
\* the run has returned
Replan ==
  /\ pc = "returned"
  /\ \E oks \in [1..Len(folders) -> BOOLEAN] :
       replan' = analyze_folders(localFS, folders, DefaultCategories, oks)
  /\ remoteCommands' = remoteCommands \o remote_commands_of_planning(folders)
  /\ pc' = "replanned"
  /\ UNCHANGED <<localFS, folders, cancelled, to_sync, already_exist, idx, progress,
                 callbacks, attempts, cancelCalls, cancelAt,
                 varsNotB>>

Next ==
  \/ Construct
  \/ Begin
  \/ Analyze
  \/ AnalyzeRaises
  \/ LoopHead
  \/ Pull
  \/ Final
  \/ Cancel
  \/ Replan

Spec == Init /\ [][Next]_vars


\* ------------------------------------------------ pull_files_tar, by steps
\* batch_size = 100
batch_size == 100

\* remote_paths[batch_start:batch_start + batch_size]
Batch == SubSeq(remote_paths, batch_start + 1, Min(batch_start + batch_size, Len(remote_paths)))

\* The arguments of a call: distinct remote paths, and a path_mapping that has
\* a key for some of them.
TarArguments ==
  {s \in UNION {[1..n -> DevicePaths] : n \in 0..MaxTarFiles} :
     \A i, j \in 1..Len(s) : i # j => s[i] # s[j]}

InitTar ==
  /\ localFS = [lp \in LocalPaths |-> Absent]
  /\ folders = <<>>
  /\ pc = "idle"
  /\ cancelled = FALSE
  /\ to_sync = <<>> /\ already_exist = <<>> /\ idx = 0
  /\ progress = NoProgress
  /\ callbacks = <<>> /\ attempts = <<>>
  /\ cancelCalls = 0 /\ cancelAt = -1
  /\ replan = <<>>
  /\ remoteCommands = <<>>
  /\ tpc = "idle"
  /\ remote_paths \in TarArguments
  /\ path_mapping \in SUBSET DevicePaths
  /\ batch_start = 0 /\ success = 0 /\ failed = 0
  /\ members = <<>> /\ cursor = 0
  /\ tarLog = <<>> /\ tarPulls = <<>>
  /\ PoolIdle
  /\ PathIdle /\ CatIdle /\ AggIdle /\ ScanIdle
  /\ WorkerIdle
  /\ PlanIdle
  /\ RootsIdle
  /\ ParseIdle

\* lines 196-204: nothing to do for an empty list
TarCall ==
  /\ tpc = "idle"
  /\ tpc' = IF remote_paths = <<>> THEN "returned" ELSE "batch"
  /\ UNCHANGED <<remote_paths, path_mapping, batch_start, success, failed, members,
                 cursor, tarLog, tarPulls,
                 varsNotT>>

\* The outcomes of the bulk transfer of one batch (lines 219-231, 248, 271):
\* subprocess.run raises TimeoutExpired ("timeout"); non-zero status or empty
\* payload ("failed"); the payload is no readable archive, tarfile raises
\* TarError before the first member ("corrupt"); an archive holding the files
\* of the batch ("ok").
TarOutcomes == {"timeout", "failed", "corrupt", "ok"}

\* lines 206-231, 271-272: one batch: the tar command and what follows from
\* its outcome
TarBatch ==
  /\ tpc = "batch"
  /\ \E outcome \in TarOutcomes :
       /\ tarLog' = Append(tarLog, [batch |-> Batch, outcome |-> outcome])
       /\ failed' = IF outcome = "timeout" THEN failed + Len(Batch) ELSE failed
       /\ members' = IF outcome = "ok" THEN Batch ELSE <<>>
       /\ tpc' = CASE outcome = "timeout" -> "batch_end"
                   [] outcome = "ok" -> "extract"
                   [] OTHER -> "fallback"
  /\ cursor' = 0
  /\ UNCHANGED <<remote_paths, path_mapping, batch_start, success, tarPulls,
                 varsNotT>>

\* lines 231-247: the next member of the archive.  A member that has no key in
\* path_mapping is passed over.  For one that has a key, line 237 evaluates
\* os.path.join, and adb.py does not import os (lines 6-9): NameError, which
\* neither `except tarfile.TarError` nor `except subprocess.TimeoutExpired`
\* catches, ends the call.
TarExtract ==
  /\ tpc = "extract"
  /\ IF cursor >= Len(members)
       THEN tpc' = "batch_end" /\ UNCHANGED cursor
       ELSE IF members[cursor + 1] \in path_mapping
         THEN tpc' = "raised" /\ UNCHANGED cursor
         ELSE tpc' = "extract" /\ cursor' = cursor + 1
  /\ UNCHANGED <<remote_paths, path_mapping, batch_start, success, failed, members,
                 tarLog, tarPulls,
                 varsNotT>>

\* lines 250-258 and 261-269 (the same loop twice): the next path of the
\* batch in the fallback.  A path without a key in path_mapping is passed
\* over; for one with a key, line 253 / 264 evaluates os.path.join: NameError
\* ends the call before pull_file is reached.
TarFallback ==
  /\ tpc = "fallback"
  /\ IF cursor >= Len(Batch)
       THEN tpc' = "batch_end" /\ UNCHANGED cursor
       ELSE IF Batch[cursor + 1] \in path_mapping
         THEN tpc' = "raised" /\ UNCHANGED cursor
         ELSE tpc' = "fallback" /\ cursor' = cursor + 1
  /\ UNCHANGED <<remote_paths, path_mapping, batch_start, success, failed, members,
                 tarLog, tarPulls,
                 varsNotT>>

\* lines 274-277 and the loop head 206: the next batch, or the return of
\* (success, failed)
TarBatchEnd ==
  /\ tpc = "batch_end"
  /\ batch_start' = batch_start + batch_size
  /\ tpc' = IF batch_start + batch_size < Len(remote_paths) THEN "batch" ELSE "returned"
  /\ UNCHANGED <<remote_paths, path_mapping, success, failed, members, cursor, tarLog,
                 tarPulls,
                 varsNotT>>

NextTar ==
  \/ TarCall
  \/ TarBatch
  \/ TarExtract
  \/ TarFallback
  \/ TarBatchEnd

TarSpec == InitTar /\ [][NextTar]_vars


\* ------------------------------------ _check_files_multithread, by steps
\* ThreadPoolExecutor(max_workers=16)
max_workers == 16

\* The state of start_backup when no run has been started.
BackupIdle ==
  /\ folders = <<>> /\ pc = "idle" /\ cancelled = FALSE
  /\ to_sync = <<>> /\ already_exist = <<>> /\ idx = 0
  /\ progress = NoProgress
  /\ callbacks = <<>> /\ attempts = <<>>
  /\ cancelCalls = 0 /\ cancelAt = -1
  /\ replan = <<>> /\ remoteCommands = <<>>

\* files_to_check of analyze_folder (lines 173-176) for the first folder of
\* the scan result: <<local_path, size>> of each record of its listing.
CheckCandidates ==
  LET recs == get_all_media_files(ScannedFolders[1], DefaultCategories, TRUE)
  IN  [i \in 1..Len(recs) |-> <<get_local_path(recs[i].path), recs[i].size>>]

\* The local trees of a call: a checked path is absent, cannot be stat-ed, or
\* holds a file of the size of one of the records; nothing else is looked at.
CheckTrees ==
  {fs \in [LocalPaths -> {Absent, NoAccess} \cup {c[2] : c \in Range(CheckCandidates)}] :
     \A lp \in LocalPaths : lp \notin {c[1] : c \in Range(CheckCandidates)} => fs[lp] = Absent}

\* The lists handed to _check_files_multithread: n files; a file beyond the
\* last candidate is, for the check, like one of the candidates.
CheckLists ==
  {[i \in 1..n |-> CheckCandidates[((i - 1) % Len(CheckCandidates)) + 1]] :
     n \in 0..MaxCheckFiles}

RECURSIVE SumCounts(_, _)
SumCounts(f, S) ==
  IF S = {} THEN 0
  ELSE LET t == CHOOSE x \in S : TRUE IN f[t] + SumCounts(f, S \ {t})

\* number of work items a worker has taken so far
Started == SumCounts(running, DOMAIN running) + SumCounts(finished, DOMAIN finished)
             + SumCounts(yielded, DOMAIN yielded)

InitPool ==
  /\ localFS \in CheckTrees
  /\ BackupIdle
  /\ TarIdle
  /\ PathIdle /\ CatIdle /\ AggIdle /\ ScanIdle
  /\ WorkerIdle
  /\ PlanIdle
  /\ RootsIdle
  /\ ParseIdle
  /\ \E fl \in CheckLists :
       pool = [cpc |-> "idle", files |-> fl, submitted |-> 0, threads |-> 0,
               running  |-> [t \in Range(fl) |-> 0],
               finished |-> [t \in Range(fl) |-> 0],
               yielded  |-> [t \in Range(fl) |-> 0],
               existing |-> {}]

\* lines 123-131: existing = set(); nothing to do for an empty list; else the
\* executor is created
PoolCall ==
  /\ cpc = "idle"
  /\ pool' = [pool EXCEPT !.cpc = IF files = <<>> THEN "returned" ELSE "submit"]
  /\ UNCHANGED varsNotP

\* executor.submit creates a worker thread when no worker is idle and the
\* executor has fewer than max_workers threads
pool_spawns(n_threads, busy) == busy = n_threads /\ n_threads < max_workers

\* lines 132-135: the next executor.submit of the dict comprehension.  The
\* work item goes to an idle worker or to a new one at once, or waits in the
\* executor's queue when all max_workers workers are busy.
PoolSubmit ==
  /\ cpc = "submit"
  /\ LET t == files[submitted + 1]
         busy == SumCounts(running, DOMAIN running)
     IN  pool' = [pool EXCEPT
                    !.threads = IF pool_spawns(threads, busy) THEN threads + 1 ELSE threads,
                    !.running = IF busy < threads \/ pool_spawns(threads, busy)
                                  THEN [running EXCEPT ![t] = @ + 1]
                                  ELSE running,
                    !.submitted = submitted + 1,
                    !.cpc = IF submitted + 1 = Len(files) THEN "collect" ELSE "submit"]
  /\ UNCHANGED varsNotP

\* A worker finishes _check_local_file for one file (lines 106-112); it then
\* takes the oldest waiting work item, if there is one.
PoolFinish ==
  /\ cpc \in {"submit", "collect"}
  /\ \E t \in DOMAIN running :
       /\ running[t] > 0
       /\ pool' = [pool EXCEPT
                      !.finished = [finished EXCEPT ![t] = @ + 1],
                      !.running = IF Started < submitted
                                    THEN [[running EXCEPT ![t] = @ - 1]
                                            EXCEPT ![files[Started + 1]] = @ + 1]
                                    ELSE [running EXCEPT ![t] = @ - 1]]
  /\ UNCHANGED varsNotP

\* lines 137-143: as_completed gives a finished future, in any order;
\* existing.add(path) if its result is true
PoolCollect ==
  /\ cpc = "collect"
  /\ \E t \in DOMAIN finished :
       /\ finished[t] > 0
       /\ pool' = [pool EXCEPT
                      !.finished = [finished EXCEPT ![t] = @ - 1],
                      !.yielded = [yielded EXCEPT ![t] = @ + 1],
                      !.existing = IF check_local_file(localFS, t[1], t[2])
                                     THEN existing \cup {t[1]}
                                     ELSE existing]
  /\ UNCHANGED varsNotP

\* `for future in as_completed(future_to_path)` ends when as_completed has
\* given every future of the dict
as_completed_done_MutFirst(fl, yl) == SumCounts(yl, DOMAIN yl) >= 1

as_completed_done(fl, yl) == SumCounts(yl, DOMAIN yl) = Len(fl)

\* lines 137, 145: the loop is over, the `with` block shuts the executor
\* down, `existing` is returned
PoolReturn ==
  /\ cpc = "collect"
  /\ as_completed_done(files, yielded)
  /\ pool' = [pool EXCEPT !.cpc = "returned"]
  /\ UNCHANGED varsNotP

NextPool ==
  \/ PoolCall
  \/ PoolSubmit
  \/ PoolFinish
  \/ PoolCollect
  \/ PoolReturn

PoolSpec == InitPool /\ [][NextPool]_vars


\* ------------------------------------------------------ _get_local_path
\* The storage roots of a device: the primary mount point /sdcard and its
\* target (the same physical storage), two cards under /storage, and a mount
\* point outside /storage given as an additional scan path.
PathRoots ==
  { [root |-> <<"sdcard">>,                   storage |-> "internal"],
    [root |-> <<"storage", "emulated", "0">>, storage |-> "internal"],
    [root |-> <<"storage", "1234-5678">>,     storage |-> "1234-5678"],
    [root |-> <<"storage", "ABCD-EF01">>,     storage |-> "ABCD-EF01"],
    [root |-> <<"mnt", "usb">>,               storage |-> "usb"] }

\* Names of directories and files below a root; some look like the first
\* segment of a local path.
PathSegments == {"DCIM", "internal", "sdcard_1234-5678", "a.jpg"}

\* The paths of files below a storage root.
PathRests == UNION {[1..n -> PathSegments] : n \in 1..MaxRestLen}

InitPath ==
  /\ localFS = [lp \in LocalPaths |-> Absent]
  /\ BackupIdle /\ TarIdle /\ PoolIdle /\ CatIdle /\ AggIdle /\ ScanIdle
  /\ WorkerIdle
  /\ PlanIdle
  /\ RootsIdle
  /\ ParseIdle
  /\ \E r \in PathRoots, rest \in PathRests :
       pathCall = [dpc |-> "idle", remote_root |-> r.root, remote_rest |-> rest,
                   local_path |-> <<>>]

\* one call of _get_local_path(remote_path)
DerivePath ==
  /\ dpc = "idle"
  /\ pathCall' = [pathCall EXCEPT
                    !.local_path = get_local_path(remote_root \o remote_rest),
                    !.dpc = "done"]
  /\ UNCHANGED varsNotL

NextPath ==
  \/ DerivePath

PathSpec == InitPath /\ [][NextPath]_vars


\* ------------------------------------------- aggregate_files_to_folders
\* The storage root of the aggregated listings.
AggRoot == <<"storage", "emulated", "0">>

\* Records a listing of that root can hold.
AggUniverse ==
  { [path |-> AggRoot \o <<"DCIM", "a.jpg">>,     name |-> "a.jpg",     size |-> 100],
    [path |-> AggRoot \o <<"DCIM", "b.jpg">>,     name |-> "b.jpg",     size |-> 200],
    [path |-> AggRoot \o <<"Pictures", "c.png">>, name |-> "c.png",     size |-> 50],
    [path |-> AggRoot \o <<"Download", "notes.txt">>, name |-> "notes.txt", size |-> 7],
    [path |-> AggRoot \o <<"Android", "media", "com.whatsapp", "x.mp4">>,
     name |-> "x.mp4", size |-> 1000],
    [path |-> AggRoot \o <<"Android", "media", "com.whatsapp", "Media", "a.jpg">>,
     name |-> "a.jpg", size |-> 30],
    [path |-> AggRoot \o <<"Android", "media", "org.telegram", "b.jpg">>,
     name |-> "b.jpg", size |-> 40],
    [path |-> AggRoot \o <<"Android", "notes.txt">>, name |-> "notes.txt", size |-> 5],
    [path |-> AggRoot \o <<"Android", "media", "y.jpg">>, name |-> "y.jpg", size |-> 9],
    [path |-> AggRoot \o <<"z.jpg">>, name |-> "z.jpg", size |-> 3] }

\* The listings: records with distinct paths, in any order.
AggListings ==
  {l \in UNION {[1..n -> AggUniverse] : n \in 0..MaxAggFiles} :
     \A i, j \in 1..Len(l) : i # j => l[i] # l[j]}

InitAgg ==
  /\ localFS = [lp \in LocalPaths |-> Absent]
  /\ BackupIdle /\ TarIdle /\ PoolIdle /\ PathIdle /\ CatIdle /\ ScanIdle
  /\ WorkerIdle
  /\ PlanIdle
  /\ RootsIdle
  /\ ParseIdle
  /\ \E l \in AggListings :
       aggCall = [apc |-> "idle", agg_files |-> l, storage_root |-> AggRoot,
                  agg_folders |-> <<>>]

\* one call of aggregate_files_to_folders(files, storage_root, storage_type)
Aggregate ==
  /\ apc = "idle"
  /\ aggCall' = [aggCall EXCEPT
                   !.agg_folders = aggregate_files_to_folders(agg_files, storage_root, "Interno"),
                   !.apc = "done"]
  /\ UNCHANGED varsNotA

NextAgg ==
  \/ Aggregate

AggSpec == InitAgg /\ [][NextAgg]_vars


\* ---------------------------------------------- scan_media_folders, by steps
\* The storage roots of the device, with their labels (get_storage_roots).
ScanRoots ==
  { [path |-> <<"storage", "emulated", "0">>, storage_type |-> "Interno"],
    [path |-> <<"storage", "1234-5678">>,     storage_type |-> "SD Card (1234-5678)"] }

\* storage_roots of a scan: some of the roots, in the order of the dict
\* (storage_paths is given by the caller, or made from get_storage_roots).
ScanRootSelections ==
  {l \in UNION {[1..n -> ScanRoots] : n \in 1..Cardinality(ScanRoots)} :
     \A i, j \in 1..Len(l) : i # j => l[i] # l[j]}

InitScan ==
  /\ localFS = [lp \in LocalPaths |-> Absent]
  /\ BackupIdle /\ TarIdle /\ PoolIdle /\ PathIdle /\ CatIdle /\ AggIdle
  /\ WorkerIdle
  /\ PlanIdle
  /\ RootsIdle
  /\ ParseIdle
  /\ \E roots \in ScanRootSelections, cats \in SUBSET SelectableCategories :
       scan = [spc |-> "idle", storage_roots |-> roots, scan_categories |-> cats,
               root_idx |-> 0, listings |-> <<>>, all_folders |-> <<>>,
               scan_result |-> <<>>]

\* lines 385-411: the roots, all_folders = [], categories or ['media']
ScanBegin ==
  /\ spc = "idle"
  /\ scan' = [scan EXCEPT
                !.scan_categories = IF scan_categories = {} THEN DefaultCategories
                                                            ELSE scan_categories,
                !.spc = "loop"]
  /\ UNCHANGED varsNotS

\* lines 407-411: extensions, include_other, scan_extensions
scan_extensions_of(cats) ==
  LET ec == get_extensions_for_categories(cats)
  IN  IF ec[2] THEN {"*"} ELSE ec[1]

\* lines 413-441: one storage root: the listing (its remote command succeeds
\* or fails), the category filter, the aggregation, all_folders.extend
ScanRoot ==
  /\ spc = "loop"
  /\ root_idx < Len(storage_roots)
  /\ \E ok \in BOOLEAN :
       LET root == storage_roots[root_idx + 1]
           listed == find_media_files(root.path, scan_extensions_of(scan_categories),
                                      SKIP_DIRECTORIES, ok)
           kept == SelectSeq(listed, LAMBDA f : is_file_in_categories(f.name, scan_categories))
           folder_list == IF kept # <<>>
                            THEN aggregate_files_to_folders(kept, root.path, root.storage_type)
                            ELSE <<>>
       IN  scan' = [scan EXCEPT
                      !.all_folders = all_folders \o folder_list,
                      !.listings = Append(listings,
                                          [root |-> root.path, ok |-> ok, listed |-> listed,
                                           files |-> kept, folders |-> folder_list]),
                      !.root_idx = root_idx + 1]
  /\ UNCHANGED varsNotS

\* lines 444-466: the sort of all_folders, the totals, the ScanResult
ScanFinish ==
  /\ spc = "loop"
  /\ root_idx = Len(storage_roots)
  /\ LET sorted == sort_by_total_count_desc(all_folders)
     IN  scan' = [scan EXCEPT
                    !.all_folders = sorted,
                    !.scan_result = [folders      |-> sorted,
                                     total_photos |-> SumField(sorted, "photo_count"),
                                     total_videos |-> SumField(sorted, "video_count"),
                                     total_files  |-> SumField(sorted, "file_count"),
                                     total_size   |-> SumField(sorted, "total_size")],
                    !.spc = "done"]
  /\ UNCHANGED varsNotS

NextScan ==
  \/ ScanBegin
  \/ ScanRoot
  \/ ScanFinish

ScanSpec == InitScan /\ [][NextScan]_vars


\* ------------------------------------------------ is_file_in_categories
\* File names: with an extension of a table in lower and in upper case, with
\* an extension of no table, with several dots, ending in a dot, starting
\* with a dot, without a dot.
FileNames ==
  {"a.jpg", "b.JPG", "c.png", "x.mp4", "notes.txt", "report.pdf", "app.apk", "song.mp3",
   "archive.tar.gz", "photo.jpg.bak", "x.", ".nomedia", ".jpg", "README", "Makefile"}

\* The category selections: any of the four categories, and a name that is
\* no category.
CategorySelections == SUBSET (SelectableCategories \cup {"music"})

InitCat ==
  /\ localFS = [lp \in LocalPaths |-> Absent]
  /\ BackupIdle /\ TarIdle /\ PoolIdle /\ PathIdle /\ AggIdle /\ ScanIdle
  /\ WorkerIdle
  /\ PlanIdle
  /\ RootsIdle
  /\ ParseIdle
  /\ \E name \in FileNames, cats \in CategorySelections :
       catCall = [kpc |-> "idle", filename |-> name, categories |-> cats, verdict |-> <<>>]

\* one call of is_file_in_categories(filename, categories) of scanner.py and
\* one of categories.py
Classify ==
  /\ kpc = "idle"
  /\ catCall' = [catCall EXCEPT
                   !.verdict = [scanner    |-> is_file_in_categories(filename, categories),
                                categories |-> categories_is_file_in_categories(filename,
                                                                                categories)],
                   !.kpc = "done"]
  /\ UNCHANGED varsNotC

NextCat ==
  \/ Classify

CatSpec == InitCat /\ [][NextCat]_vars


\* ------------------------------ find_media_files: the parsing of the output
\* A text is a sequence of characters.  The characters of str.strip() and of
\* int() that are white space.
WHITESPACE == {" "}

\* s.lstrip()
RECURSIVE lstrip(_)
lstrip(s) == IF s # <<>> /\ Head(s) \in WHITESPACE THEN lstrip(Tail(s)) ELSE s

\* s.rstrip()
RECURSIVE rstrip(_)
rstrip(s) ==
  IF s # <<>> /\ s[Len(s)] \in WHITESPACE THEN rstrip(SubSeq(s, 1, Len(s) - 1)) ELSE s

\* s.find(c) + 1: the position of the first c in s, 0 if there is none
index_of(s, c) ==
  IF \E i \in 1..Len(s) : s[i] = c
    THEN CHOOSE i \in 1..Len(s) : s[i] = c /\ \A j \in 1..(i - 1) : s[j] # c
    ELSE 0

\* s.rfind(c) + 1: the position of the last c in s, 0 if there is none
rindex_of(s, c) ==
  IF \E i \in 1..Len(s) : s[i] = c
    THEN CHOOSE i \in 1..Len(s) : s[i] = c /\ \A j \in (i + 1)..Len(s) : s[j] # c
    ELSE 0

\* The text of the output is the printed lines, each followed by '\n' (-printf
\* "%s|%T@|%p\n"); text.split('\n') of it: the printed lines and an empty one.
split_lines(printed) == printed \o << <<>> >>

\* text.strip().split('\n') in terms of text.split('\n'): white space and
\* '\n' go from both ends of the text, so the empty and blank lines at the
\* ends go and the first and last line left lose their outer white space.
RECURSIVE strip_leading(_)
strip_leading(text_lines) ==
  IF Len(text_lines) > 1 /\ lstrip(text_lines[1]) = <<>>
    THEN strip_leading(Tail(text_lines))
    ELSE <<lstrip(text_lines[1])>> \o Tail(text_lines)

RECURSIVE strip_trailing(_)
strip_trailing(text_lines) ==
  IF Len(text_lines) > 1 /\ rstrip(text_lines[Len(text_lines)]) = <<>>
    THEN strip_trailing(SubSeq(text_lines, 1, Len(text_lines) - 1))
    ELSE SubSeq(text_lines, 1, Len(text_lines) - 1)
           \o <<rstrip(text_lines[Len(text_lines)])>>

\* line 413: output.strip().split('\n')
stripped_lines(printed) == strip_trailing(strip_leading(split_lines(printed)))

\* s.split('|', 2), given the position of the first '|' (0: none) and the
\* position in the rest of the second one
split_at(s, i, j) ==
  IF i = 0 THEN <<s>>
  ELSE IF j = 0 THEN <<SubSeq(s, 1, i - 1), SubSeq(s, i + 1, Len(s))>>
  ELSE <<SubSeq(s, 1, i - 1), SubSeq(s, i + 1, i + j - 1), SubSeq(s, i + j + 1, Len(s))>>

rest_after(s, i) == SubSeq(s, i + 1, Len(s))

\* line 417: line.split('|', 2)
split_fields(line) ==
  split_at(line, index_of(line, "|"),
           IF index_of(line, "|") = 0 THEN 0
           ELSE index_of(rest_after(line, index_of(line, "|")), "|"))

DIGITS == {"0", "1", "2", "5"}

digit_value(c) ==
  CASE c = "0" -> 0
    [] c = "1" -> 1
    [] c = "2" -> 2
    [] c = "5" -> 5

RECURSIVE digits_value(_)
digits_value(d) ==
  IF d = <<>> THEN 0
  ELSE 10 * digits_value(SubSeq(d, 1, Len(d) - 1)) + digit_value(d[Len(d)])

\* int(s) for a text made of white space, signs, digits and other characters:
\* the text without its outer white space is an optional sign and one or
\* more digits, or ValueError is raised (ok = FALSE)
signed_int(t) ==
  IF t # <<>> /\ Head(t) \in {"-", "+"}
    THEN [ok    |-> Tail(t) # <<>> /\ \A i \in 1..Len(Tail(t)) : Tail(t)[i] \in DIGITS,
          sign  |-> IF Head(t) = "-" THEN -1 ELSE 1,
          digits |-> Tail(t)]
    ELSE [ok    |-> t # <<>> /\ \A i \in 1..Len(t) : t[i] \in DIGITS,
          sign  |-> 1,
          digits |-> t]

int_of(parsed_int) ==
  [ok |-> parsed_int.ok,
   value |-> IF parsed_int.ok THEN parsed_int.sign * digits_value(parsed_int.digits) ELSE 0]

py_int(s) == int_of(signed_int(rstrip(lstrip(s))))

\* parts[1].split('.')[0]
before_first_dot_at(s, i) == IF i = 0 THEN s ELSE SubSeq(s, 1, i - 1)

before_first_dot(s) == before_first_dot_at(s, index_of(s, "."))

\* path.rsplit('/', 1)[-1] if '/' in path else path
after_last_slash(path) == SubSeq(path, rindex_of(path, "/") + 1, Len(path))

\* lines 421-435: the record of the three fields of a line, or no record
\* when int() raises ValueError
record_of_fields(parts, size) ==
  IF ~size.ok THEN <<>>
  ELSE << [path   |-> parts[3],
           name   |-> after_last_slash(parts[3]),
           size   |-> size.value,
           mtime  |-> before_first_dot(parts[2]),
           is_dir |-> FALSE] >>

fields_to_records(parts) ==
  IF Len(parts) # 3 THEN <<>> ELSE record_of_fields(parts, py_int(parts[1]))

\* lines 414-435: the body of the loop for one line
parse_line(line) ==
  IF line = <<>> \/ index_of(line, "|") = 0 THEN <<>>
  ELSE fields_to_records(split_fields(line))

RECURSIVE parse_lines(_)
parse_lines(text_lines) ==
  IF text_lines = <<>> THEN <<>>
  ELSE parse_line(Head(text_lines)) \o parse_lines(Tail(text_lines))

\* lines 412-437: files, for the lines the remote command has printed
parse_output(printed) == parse_lines(stripped_lines(printed))

\* Lines a listing can print: well-formed ones (a fractional time, a path
\* with the delimiter in it, a path without '/', a name that ends in a
\* space, a negative size) and malformed ones (a size that is no number, no
\* size, two fields, no delimiter, nothing).
ParseLines ==
  { <<"5", "|", "1", ".", "5", "|", "/", "d", "/", "a", ".", "b">>,
    <<"1", "2", "|", "2", "|", "/", "c">>,
    <<"5", "|", "1", "|", "/", "d", "/", "a", "|", "b">>,
    <<"5", "|", "|", "c">>,
    <<"5", "|", ".", "5", "|", "/", "c">>,
    <<"-", "5", "|", "1", "|", "/", "c">>,
    <<"2", "|", "1", "|", "/", "d", "/", "a", ".", "b", " ">>,
    <<"x", "|", "1", "|", "/", "c">>,
    <<"|", "1", "|", "/", "c">>,
    <<"5", "|", "/", "c">>,
    <<"/", "c">>,
    <<>> }

ParseOutputs == UNION {[1..n -> ParseLines] : n \in 0..MaxLines}

InitParse ==
  /\ localFS = [lp \in LocalPaths |-> Absent]
  /\ BackupIdle /\ TarIdle /\ PoolIdle /\ PathIdle /\ CatIdle /\ AggIdle /\ ScanIdle
  /\ WorkerIdle
  /\ PlanIdle
  /\ RootsIdle
  /\ \E printed \in ParseOutputs :
       parse = [ppc |-> "idle", printed_lines |-> printed, parsed_files |-> <<>>]

\* find_media_files lines 412-437, once the remote command has returned
ParseOutput ==
  /\ ppc = "idle"
  /\ parse' = [parse EXCEPT !.parsed_files = parse_output(printed_lines),
                            !.ppc = "done"]
  /\ UNCHANGED varsNotF

NextParse ==
  \/ ParseOutput

ParseSpec == InitParse /\ [][NextParse]_vars

\* ------------------------------------------- scanner.py, get_storage_roots
\* '/storage/emulated/0', the default of internal_path
DEFAULT_INTERNAL_PATH == <<"storage", "emulated", "0">>

\* line in ['emulated', 'self']
PSEUDO_ENTRIES == {"emulated", "self"}

\* f'/storage/{line}'
potential_path_of(line) == <<"storage", line>>

\* f"SD Card ({line})"
sd_card_label(line) ==
  CASE line = "1234-5678" -> "SD Card (1234-5678)"
    [] line = "ABCD-EF01" -> "SD Card (ABCD-EF01)"
    [] OTHER -> "SD Card ()"

\* roots[path] = label on a dict kept in the order of insertion: the label of
\* a key the dict has is replaced, a new key goes to the end
dict_set(d, path, label) ==
  IF \E i \in 1..Len(d) : d[i].path = path
    THEN [i \in 1..Len(d) |-> IF d[i].path = path THEN [d[i] EXCEPT !.label = label]
                                                  ELSE d[i]]
    ELSE Append(d, [path |-> path, label |-> label])

\* The outcomes of a remote `readlink -f`: the target is printed, nothing is
\* printed, or shell_command raises ADBError.
ReadlinkOutcomes == {"printed", "empty", "error"}

\* lines 216-221 and 238-244: real_path after the resolution of a path
resolved_path(outcome, target, default) ==
  IF outcome = "printed" THEN target ELSE default

\* line 247: `if real_path in seen_real_paths: continue`
already_seen_MutNever(path, seen) == FALSE

already_seen(path, seen) == path \in seen

\* lines 251-258: the entry is accepted when the check command returns
\* without error and prints 'ok'; `[ -d p ] && echo "ok"` has a non-zero
\* status when p is no directory, and shell_command raises ADBError then
check_accepts_MutAnyEntry(is_dir, command_ok) == command_ok

check_accepts(is_dir, command_ok) == is_dir /\ command_ok

\* The entries a device may have under /storage besides the pseudo-entries.
CardNames == {"1234-5678", "ABCD-EF01"}

\* The paths the links of a device may resolve to.
LinkTargets ==
  { <<"storage", "1234-5678">>, <<"storage", "ABCD-EF01">>,
    <<"mnt", "media_rw", "1234-5678">>, <<"storage", "emulated", "0">>,
    <<"data", "media", "0">> }

\* What `ls -1 /storage/` prints, after strip().split('\n'); nothing printed
\* gives one empty line.
LsOutputs ==
  { <<"1234-5678", "ABCD-EF01", "emulated", "self">>,
    <<"1234-5678", "emulated", "self">>,
    <<"emulated", "self">>,
    <<"">> }

\* The devices: the target of /sdcard, the output of `ls -1 /storage/`, the
\* canonical path of each entry (a canonical path is its own canonical path)
\* and whether the entry is a directory.
Devices ==
  { dev \in [sdcard_target : {<<"storage", "emulated", "0">>, <<"data", "media", "0">>},
             ls_lines : LsOutputs,
             target : [CardNames -> LinkTargets],
             is_dir : [CardNames -> BOOLEAN]] :
      \A c \in CardNames :
        /\ dev.target[c] \in {potential_path_of(e) : e \in CardNames}
             => \/ dev.target[c] = potential_path_of(c)
                \/ dev.target[dev.target[c][2]] = dev.target[c]
        /\ dev.target[c] \in { <<"storage", "emulated", "0">>, <<"data", "media", "0">> }
             => dev.target[c] = dev.sdcard_target }

InitRoots ==
  /\ localFS = [lp \in LocalPaths |-> Absent]
  /\ BackupIdle /\ TarIdle /\ PoolIdle /\ PathIdle /\ CatIdle /\ AggIdle /\ ScanIdle
  /\ WorkerIdle
  /\ PlanIdle
  /\ ParseIdle
  /\ \E dev \in Devices :
       discover = [gpc |-> "start", device |-> dev, roots |-> <<>>,
                   seen_real_paths |-> {}, line_idx |-> 0, real_path |-> <<>>,
                   probes |-> <<>>]

\* lines 210-224: roots = {}, seen_real_paths = set(), the resolution of
\* /sdcard, the internal root
ResolveInternal ==
  /\ gpc = "start"
  /\ \E outcome \in ReadlinkOutcomes :
       LET internal_path == resolved_path(outcome, device.sdcard_target,
                                          DEFAULT_INTERNAL_PATH)
       IN  discover' = [discover EXCEPT
                          !.roots = dict_set(<<>>, internal_path, "Interno"),
                          !.seen_real_paths = {internal_path},
                          !.probes = Append(probes, [command |-> "readlink", line |-> "sdcard",
                                                     outcome |-> outcome]),
                          !.gpc = "list"]
  /\ UNCHANGED varsNotG

\* lines 227-229 and 259-260: `ls -1 /storage/`; ADBError ends the discovery
ListStorage ==
  /\ gpc = "list"
  /\ \E command_ok \in BOOLEAN :
       discover' = [discover EXCEPT
                      !.probes = Append(probes, [command |-> "ls", line |-> "",
                                                 outcome |-> IF command_ok THEN "printed"
                                                                           ELSE "error"]),
                      !.gpc = IF command_ok THEN "loop" ELSE "done"]
  /\ UNCHANGED varsNotG

\* lines 230-232: an empty line or a pseudo-entry is passed over
SkipLine ==
  /\ gpc = "loop"
  /\ line_idx < Len(device.ls_lines)
  /\ LET line == device.ls_lines[line_idx + 1]
     IN  line = "" \/ line \in PSEUDO_ENTRIES
  /\ discover' = [discover EXCEPT !.line_idx = line_idx + 1]
  /\ UNCHANGED varsNotG

\* lines 234-248: potential_path, its resolution, the test against
\* seen_real_paths
ResolveEntry ==
  /\ gpc = "loop"
  /\ line_idx < Len(device.ls_lines)
  /\ LET line == device.ls_lines[line_idx + 1]
     IN  /\ ~(line = "" \/ line \in PSEUDO_ENTRIES)
         /\ \E outcome \in ReadlinkOutcomes :
              LET rp == resolved_path(outcome, device.target[line], potential_path_of(line))
                  seen == already_seen(rp, seen_real_paths)
              IN  discover' = [discover EXCEPT
                                 !.real_path = rp,
                                 !.probes = Append(probes, [command |-> "readlink", line |-> line,
                                                            outcome |-> outcome]),
                                 !.line_idx = IF seen THEN line_idx + 1 ELSE line_idx,
                                 !.gpc = IF seen THEN "loop" ELSE "check"]
  /\ UNCHANGED varsNotG

\* lines 250-258: the directory check and the acceptance of the entry
CheckEntry ==
  /\ gpc = "check"
  /\ \E command_ok \in BOOLEAN :
       LET line == device.ls_lines[line_idx + 1]
           accepted == check_accepts(device.is_dir[line], command_ok)
       IN  discover' = [discover EXCEPT
                          !.roots = IF accepted
                                      THEN dict_set(roots_map, potential_path_of(line),
                                                    sd_card_label(line))
                                      ELSE roots_map,
                          !.seen_real_paths = IF accepted THEN seen_real_paths \cup {real_path}
                                                          ELSE seen_real_paths,
                          !.probes = Append(probes, [command |-> "test -d", line |-> line,
                                                     outcome |-> IF accepted THEN "printed"
                                                                             ELSE "error"]),
                          !.line_idx = line_idx + 1,
                          !.gpc = "loop"]
  /\ UNCHANGED varsNotG

\* line 262: return roots
ReturnRoots ==
  /\ gpc = "loop"
  /\ line_idx = Len(device.ls_lines)
  /\ discover' = [discover EXCEPT !.gpc = "done"]
  /\ UNCHANGED varsNotG

NextRoots ==
  \/ ResolveInternal
  \/ ListStorage
  \/ SkipLine
  \/ ResolveEntry
  \/ CheckEntry
  \/ ReturnRoots

RootsSpec == InitRoots /\ [][NextRoots]_vars

\* ------------------------------ backup.py, analyze_folders on a scan result
\* The storage root whose scan result the folders are selected from.
PlanRoot == [path |-> <<"storage", "emulated", "0">>, storage_type |-> "Interno"]

\* scan_media_folders for that root (scanner.py 413-446): the listing, the
\* category filter, the aggregation
scan_of_root(root, cats) ==
  LET kept == SelectSeq(find_media_files(root.path, scan_extensions_of(cats),
                                         SKIP_DIRECTORIES, TRUE),
                        LAMBDA f : is_file_in_categories(f.name, cats))
  IN  IF kept # <<>> THEN aggregate_files_to_folders(kept, root.path, root.storage_type)
                     ELSE <<>>

\* [f for f in result.folders if f.name in selected_folders]
selected_of(folder_list, chosen) ==
  SelectSeq(folder_list, LAMBDA f : f.path \in chosen)

\* The local paths of the files of that root.
PlanLocalPaths ==
  {get_local_path(f.path) : f \in {g \in Range(DeviceListing) : IsPrefix(PlanRoot.path, g.path)}}

\* The local tree: empty, or holding every file of the root with its size
\* (the tree a complete backup leaves).
mirror_of(mirrored) ==
  [lp \in PlanLocalPaths |->
     IF mirrored
       THEN (CHOOSE g \in Range(DeviceListing) :
               IsPrefix(PlanRoot.path, g.path) /\ get_local_path(g.path) = lp).size
       ELSE Absent]

InitPlan ==
  /\ localFS = [lp \in LocalPaths |-> Absent]
  /\ BackupIdle /\ TarIdle /\ PoolIdle /\ PathIdle /\ CatIdle /\ AggIdle /\ ScanIdle
  /\ WorkerIdle
  /\ RootsIdle
  /\ ParseIdle
  /\ \E cats \in (SUBSET SelectableCategories) \ {{}}, mirrored \in BOOLEAN :
       LET folder_list == scan_of_root(PlanRoot, cats)
       IN  \E chosen \in SUBSET {folder_list[i].path : i \in 1..Len(folder_list)} :
             planCall = [qpc |-> "idle", plan_categories |-> cats, scanned |-> folder_list,
                         selected |-> selected_of(folder_list, chosen),
                         local_tree |-> mirror_of(mirrored), plan |-> <<>>]

\* one call of analyze_folders(selected, categories); the listing of each
\* folder succeeds or fails
PlanSelected ==
  /\ qpc = "idle"
  /\ \E oks \in [1..Len(selected) -> BOOLEAN] :
       planCall' = [planCall EXCEPT
                      !.plan = analyze_folders(local_tree,
                                               [i \in 1..Len(selected) |-> selected[i].path],
                                               plan_categories, oks),
                      !.qpc = "done"]
  /\ UNCHANGED varsNotQ

NextPlan ==
  \/ PlanSelected

PlanSpec == InitPlan /\ [][NextPlan]_vars

\* ------------------------------------------- gui/workers.py, BackupWorker
\* The parameters of BackupManager.start_backup besides self (backup.py
\* 212-217)
START_BACKUP_PARAMETERS == {"folders", "categories", "progress_callback"}

\* The call of BackupWorker.run (workers.py 80-86): the number of positional
\* arguments and the names of the keyword arguments
RUN_CALL ==
  [positional |-> <<"folders">>,
   keywords |-> {"categories", "include_hidden", "include_system", "progress_callback"}]

\* Python's binding of the arguments of a call to the parameters of a function
\* without *args and **kwargs: every keyword names a parameter that no
\* positional argument has filled; otherwise the call raises TypeError before
\* the body runs
call_binds(call, parameters) ==
  /\ call.keywords \subseteq parameters
  /\ call.keywords \cap Range(call.positional) = {}

\* BackupStatus values a BackupProgress returned by start_backup can carry
\* (backup.py 245, 255, 292).
ReturnedStatuses == {"in_progress", "cancelled", "completed"}

\* A BackupWorker has been created by the window (app.py 733-734,
\* workers.py 62-71): manager = None, the thread is not started.
InitWorker ==
  /\ localFS = [lp \in LocalPaths |-> Absent]
  /\ BackupIdle /\ TarIdle /\ PoolIdle /\ PathIdle /\ CatIdle /\ AggIdle /\ ScanIdle
  /\ RootsIdle
  /\ ParseIdle
  /\ PlanIdle
  /\ \E flds \in FolderSelections, cats \in SUBSET SelectableCategories :
       worker = [wpc |-> "created", worker_folders |-> flds, worker_categories |-> cats,
                 manager |-> "none", manager_cancelled |-> FALSE, cancel_log |-> <<>>,
                 progress_signals |-> <<>>, finished_signals |-> <<>>]

\* app.py 737: backup_worker.start(); the thread enters run (workers.py 74)
WorkerStart ==
  /\ wpc = "created"
  /\ worker' = [worker EXCEPT !.wpc = "run"]
  /\ UNCHANGED varsNotW

\* workers.py 75: self.manager = BackupManager(destination, device_serial);
\* os.makedirs raises OSError when the destination cannot be created
\* (backup.py 79-84), the exception leaves run and the thread ends
WorkerConstruct ==
  /\ wpc = "run"
  /\ \E makedirs_ok \in BOOLEAN :
       worker' = IF makedirs_ok
                   THEN [worker EXCEPT !.manager = "BackupManager",
                                       !.manager_cancelled = FALSE,
                                       !.wpc = "call"]
                   ELSE [worker EXCEPT !.wpc = "raised"]
  /\ UNCHANGED varsNotW

\* workers.py 77-88: the call of start_backup with on_progress, elapsed, and
\* finished.emit(result, elapsed).  When the arguments do not bind, the call
\* raises TypeError, the exception leaves run and the thread ends.
WorkerBackup ==
  /\ wpc = "call"
  /\ IF call_binds(RUN_CALL, START_BACKUP_PARAMETERS)
       THEN \E status \in ReturnedStatuses :
              worker' = [worker EXCEPT
                           !.manager_cancelled = (status # "completed"),
                           !.progress_signals = Append(@, [status |-> status]),
                           !.finished_signals = Append(@, [status |-> status]),
                           !.wpc = "finished"]
       ELSE worker' = [worker EXCEPT !.wpc = "raised"]
  /\ UNCHANGED varsNotW

\* app.py 793-797 and workers.py 90-92: cancel_backup calls
\* backup_worker.cancel() from the GUI thread while the window holds the
\* worker; cancel does nothing while manager is None
WorkerCancel ==
  /\ wpc \in {"created", "run", "call", "raised"}
  /\ Len(cancel_log) < MaxCancels
  /\ worker' = [worker EXCEPT
                  !.manager_cancelled = IF manager # "none" THEN TRUE ELSE @,
                  !.cancel_log = Append(@, [at |-> wpc, manager |-> manager])]
  /\ UNCHANGED varsNotW

NextWorker ==
  \/ WorkerStart
  \/ WorkerConstruct
  \/ WorkerBackup
  \/ WorkerCancel

WorkerSpec == InitWorker /\ [][NextWorker]_vars

\* A started QThread is scheduled: run goes on until it returns or raises.
WorkerFairSpec ==
  /\ InitWorker /\ [][NextWorker]_vars
  /\ WF_vars(WorkerConstruct)
  /\ WF_vars(WorkerBackup)


\* =============================================================== claims
Returned == pc \in {"returned", "replanned"}

\* The local file at the record's local path exists, can be stat-ed and has
\* the record's size.
LocalCopyMatches(fs, rec) ==
  /\ fs[rec.local_path] # Absent
  /\ fs[rec.local_path] # NoAccess
  /\ fs[rec.local_path] = rec.size

Classified(ts, ae, fs) ==
  /\ \A i \in 1..Len(ae) : LocalCopyMatches(fs, ae[i])
  /\ \A i \in 1..Len(ts) : ~LocalCopyMatches(fs, ts[i])

\* The entries of the attempts log that failed.
FailedAttempts == {i \in 1..Len(attempts) : attempts[i].outcome # "ok"}

RECURSIVE SumOkSizes(_)
SumOkSizes(as) ==
  IF as = <<>> THEN 0
  ELSE (IF Head(as).outcome = "ok" THEN Head(as).file.size ELSE 0) + SumOkSizes(Tail(as))

\* C1: every record of a plan is in the already-present list iff the local
\* file at its local path exists with the record's size, and in the
\* to-transfer list otherwise (absent, not stat-able, other size).  Checked
\* for the plan of a run right after it is computed and for a plan computed
\* after the run, where the local tree is the one the plan was computed from.
C1_PlanByLocalSize ==
  /\ (pc = "loop" /\ idx = 0) => Classified(to_sync, already_exist, localFS)
  /\ pc = "replanned" => Classified(replan[1], replan[2], localFS)

\* A plan with a file already present, a file whose local copy has another
\* size and a file whose local path cannot be stat-ed.
C1_Witness ==
  /\ pc = "loop" /\ idx = 0
  /\ already_exist # <<>>
  /\ \E i \in 1..Len(to_sync) : localFS[to_sync[i].local_path] \in (1..MaxSize) \ {to_sync[i].size}
  /\ \E i \in 1..Len(to_sync) : localFS[to_sync[i].local_path] = NoAccess

\* C2: after a run that returned Completed with no failed file, planning the
\* same folders again yields an empty to-transfer list.
C2_ReplanEmpty ==
  (pc = "replanned" /\ progress.status = "completed" /\ progress.failed_files = 0)
    => replan[1] = <<>>

\* C3: whenever start_backup returns, the status of the returned progress is
\* Completed or Cancelled.
C3_ReturnStatus ==
  Returned => progress.status \in {"completed", "cancelled"}

\* C4: a cancel() made in the transfer loop after N of the M files (N < M)
\* lets at most the file in flight finish: at most N + 1 files are attempted,
\* the run returns Cancelled, and completed + failed is N or N + 1.
C4_CancelStops ==
  (Returned /\ cancelAt # -1)
    => /\ Len(attempts) <= cancelAt + 1
       /\ progress.status = "cancelled"
       /\ progress.completed_files + progress.failed_files \in {cancelAt, cancelAt + 1}

\* C5: a per-file pull of a file is issued only after the bulk transfer of a
\* batch containing that file has failed.
C5_BulkFirst ==
  \A i \in 1..Len(attempts) :
    attempts[i].outcome # "oserror"
      => \E j \in 1..Len(tarLog) :
           /\ tarLog[j].outcome # "ok"
           /\ attempts[i].file.remote_path \in Range(tarLog[j].batch)

\* C6: in pull_files_tar, when the bulk transfer of a batch has failed (status,
\* empty payload or corrupt archive), every file of the batch is pulled
\* individually exactly once, and the call returns counters with
\* success + failed = number of requested paths.
C6_FallbackCounts ==
  (tpc \in {"returned", "raised"}
     /\ \E j \in 1..Len(tarLog) : tarLog[j].outcome \in {"failed", "corrupt"})
    => /\ tpc = "returned"
       /\ \A j \in 1..Len(tarLog) :
            tarLog[j].outcome \in {"failed", "corrupt"}
              => \A f \in Range(tarLog[j].batch) :
                   Cardinality({k \in 1..Len(tarPulls) : tarPulls[k] = f}) = 1
       /\ success + failed = Len(remote_paths)

\* C7: in a run without any cancel() call, every entry of the to-transfer
\* list is attempted exactly once, whatever the outcomes; every failure adds
\* one to failed_files; the run returns Completed.
C7_NoCancelAllAttempted ==
  (Returned /\ cancelCalls = 0)
    => /\ Len(attempts) = Len(to_sync)
       /\ \A i \in 1..Len(attempts) : attempts[i].entry = i /\ attempts[i].file = to_sync[i]
       /\ progress.failed_files = Cardinality(FailedAttempts)
       /\ progress.status = "completed"

\* A run without cancel() in which a pull returned False, a pull raised
\* ADBError and a directory creation raised OSError.
C7_Witness ==
  /\ Returned /\ cancelCalls = 0
  /\ {"false", "adberror", "oserror"} \subseteq {attempts[i].outcome : i \in 1..Len(attempts)}

\* C8: when the final progress has failed_files > 0, error_message is set and
\* is the message of the most recent failed file.
C8_LastError ==
  (Returned /\ progress.failed_files > 0)
    => /\ progress.error_message # NoMessage
       /\ \A i \in FailedAttempts :
            (\A k \in FailedAttempts : k <= i)
              => progress.error_message.file = attempts[i].entry

\* C9: in every progress snapshot given to the callback, and in the returned
\* progress, pending_files >= 0 and skipped_files is the number of files
\* already present; completed_bytes is the sum of the sizes of the files
\* pulled successfully so far; a run that returns Completed has
\* completed + failed = length of the to-transfer list.
C9_Counters ==
  /\ \A i \in 1..Len(callbacks) :
       /\ pending_files(callbacks[i]) >= 0
       /\ callbacks[i].skipped_files = Len(already_exist)
  /\ callbacks # <<>>
       => callbacks[Len(callbacks)].completed_bytes = SumOkSizes(attempts)
  /\ Returned
       => /\ progress = callbacks[Len(callbacks)]
          /\ progress.status = "completed"
               => /\ progress.completed_files + progress.failed_files = Len(to_sync)
                  /\ pending_files(progress) = 0

\* A run that returned Completed with files pulled, failed and skipped.
C9_Witness ==
  /\ Returned /\ progress.status = "completed"
  /\ progress.completed_files >= 1
  /\ progress.failed_files >= 1
  /\ progress.skipped_files >= 1

\* C10: along the progress callbacks of a run, completed_files and
\* completed_files + failed_files never decrease, and the files are attempted
\* in the order of the to-transfer list.
C10_Monotone ==
  /\ \A i, j \in 1..Len(callbacks) :
       i <= j => /\ callbacks[i].completed_files <= callbacks[j].completed_files
                 /\ callbacks[i].completed_files + callbacks[i].failed_files
                      <= callbacks[j].completed_files + callbacks[j].failed_files
  /\ Len(attempts) <= Len(to_sync)
  /\ \A i \in 1..Len(attempts) : attempts[i].file = to_sync[i]

\* A run that has attempted three files, with successes and a failure.
C10_Witness ==
  /\ Len(attempts) >= 3
  /\ \E i, j \in 1..Len(attempts) : attempts[i].outcome = "ok" /\ attempts[j].outcome # "ok"
  /\ callbacks[Len(callbacks)].completed_files >= 2

\* C11: a file classified as already present is never transferred: every pull
\* issued by the run is for an entry of the to-transfer list of the plan, and
\* no pull is for a remote file of the already-present list.
C11_NeverPullPresent ==
  \A i \in 1..Len(attempts) :
    /\ attempts[i].file \in Range(to_sync)
    /\ \A j \in 1..Len(already_exist) :
         attempts[i].file.remote_path # already_exist[j].remote_path

\* A run that has pulled a file while its plan holds already-present files.
C11_Witness ==
  /\ already_exist # <<>>
  /\ \E i \in 1..Len(attempts) : attempts[i].outcome = "ok"

\* C12: planning (analyze_folder / analyze_folders) works from file records
\* already held and the local filesystem: it issues no remote command.
C12_PlanningIssuesNoRemoteCommand ==
  remoteCommands = <<>>

\* The to-transfer / already-present split analyze_folder makes of the checked
\* files (lines 178-191: needs_sync = local_path not in existing_paths).
SplitBy(fl, ex) ==
  << SelectSeq(fl, LAMBDA f : f[1] \notin ex), SelectSeq(fl, LAMBDA f : f[1] \in ex) >>

\* What checking the files one after the other gives.
RECURSIVE SequentialCheck(_, _)
SequentialCheck(fs, fl) ==
  IF fl = <<>> THEN {}
  ELSE (IF check_local_file(fs, Head(fl)[1], Head(fl)[2]) THEN {Head(fl)[1]} ELSE {})
         \cup SequentialCheck(fs, Tail(fl))

\* C13: the local checks run on at most 16 worker threads whatever the number
\* of files; _check_files_multithread returns only after every check has
\* finished; and the lists made from its result are, for every interleaving
\* and completion order, those a sequential check of the same files gives.
C13_PoolBoundedAndOrderFree ==
  /\ threads <= 16
  /\ SumCounts(running, DOMAIN running) <= threads
  /\ cpc = "returned"
       => /\ SumCounts(running, DOMAIN running) = 0
          /\ SumCounts(finished, DOMAIN finished) = 0
          /\ SumCounts(yielded, DOMAIN yielded) = Len(files)
          /\ existing = SequentialCheck(localFS, files)
          /\ existing = check_files_multithread(localFS, files)
          /\ SplitBy(files, existing) = SplitBy(files, SequentialCheck(localFS, files))

\* A call with more files than workers has returned, with files found and
\* files not found.
C13_Witness ==
  /\ cpc = "returned"
  /\ Len(files) > 16
  /\ threads = 16
  /\ existing # {}
  /\ \E i \in 1..Len(files) : files[i][1] \notin existing

\* The physical storage a root belongs to.
StorageOf(root) == (CHOOSE r \in PathRoots : r.root = root).storage

\* C14: the local path is a function of the remote path that keeps the folder
\* structure: a path under the internal prefix (/sdcard/, /storage/emulated/0/)
\* maps to <destination>/internal/<rest>, a path under /storage/<id>/ to
\* <destination>/sdcard_<id>/<rest>, and no file under another storage root
\* maps to the same local path.
C14_LocalPathByRoot ==
  dpc = "done"
    => /\ remote_root \in {<<"sdcard">>, <<"storage", "emulated", "0">>}
            => local_path = Destination \o <<"internal">> \o remote_rest
       /\ (Len(remote_root) = 2 /\ remote_root[1] = "storage")
            => local_path = Destination \o <<SdcardSegment(remote_root[2])>> \o remote_rest
       /\ SdcardSegment("1234-5678") # SdcardSegment("ABCD-EF01")
       /\ \A r \in PathRoots, q \in PathRests :
            r.storage # StorageOf(remote_root) => get_local_path(r.root \o q) # local_path

\* The local path of a file in a subfolder of a card has been derived.
C14_Witness ==
  /\ dpc = "done"
  /\ remote_root = <<"storage", "1234-5678">>
  /\ Len(remote_rest) >= 2
  /\ local_path # <<>>

\* C15: for every folder of aggregate_files_to_folders, file_count is the
\* length of its files list and total_size the sum of their sizes; every input
\* record is in the files list of exactly one folder, once; so the counts sum
\* to the number of records and the sizes to the total size.
C15_FolderTotals ==
  apc = "done"
    => /\ \A k \in 1..Len(agg_folders) :
            /\ agg_folders[k].file_count = Len(agg_folders[k].files)
            /\ agg_folders[k].total_size = SumSizes(agg_folders[k].files)
       /\ \A i \in 1..Len(agg_files) :
            Cardinality({kj \in {<<k, j>> : k \in 1..Len(agg_folders), j \in 1..MaxAggFiles + 1} :
                           /\ kj[2] <= Len(agg_folders[kj[1]].files)
                           /\ agg_folders[kj[1]].files[kj[2]] = agg_files[i]}) = 1
       /\ SumField(agg_folders, "file_count") = Len(agg_files)
       /\ SumField(agg_folders, "total_size") = SumSizes(agg_files)

\* Three records have been aggregated into two folders.
C15_Witness ==
  /\ apc = "done"
  /\ Len(agg_files) = 3
  /\ Len(agg_folders) = 2

\* The permutations of a list.
PermutationsOf(l) ==
  {[i \in 1..Len(l) |-> l[p[i]]] :
     p \in {q \in [1..Len(l) -> 1..Len(l)] : \A i, j \in 1..Len(l) : i # j => q[i] # q[j]}}

\* What is compared of a folder: all but the order of its files.
FolderSummary(f) ==
  [path |-> f.path, file_count |-> f.file_count, total_size |-> f.total_size,
   photo_count |-> f.photo_count, video_count |-> f.video_count, files |-> Range(f.files)]

\* C16: for every permutation of the same records and the same storage root,
\* aggregate_files_to_folders gives the same folder paths and, per folder, the
\* same file_count, total_size, photo_count, video_count and set of files.
C16_OrderIndependent ==
  apc = "done"
    => \A l \in PermutationsOf(agg_files) :
         LET other == aggregate_files_to_folders(l, storage_root, "Interno")
         IN  /\ Len(other) = Len(agg_folders)
             /\ {FolderSummary(f) : f \in Range(other)}
                  = {FolderSummary(f) : f \in Range(agg_folders)}

\* Records of two folders, those of one folder not next to each other in the
\* list, some of them photos, have been aggregated.
C16_Witness ==
  /\ apc = "done"
  /\ Len(agg_files) = 3
  /\ Len(agg_folders) = 2
  /\ top_level_of(relative_parts(agg_files[1].path, storage_root))
       = top_level_of(relative_parts(agg_files[3].path, storage_root))
  /\ \E k \in 1..Len(agg_folders) : agg_folders[k].photo_count = 2

\* The records of the scenario of C17.
ScenarioFiles ==
  << [path |-> AggRoot \o <<"DCIM", "a.jpg">>,     name |-> "a.jpg", size |-> 100],
     [path |-> AggRoot \o <<"DCIM", "b.jpg">>,     name |-> "b.jpg", size |-> 200],
     [path |-> AggRoot \o <<"Pictures", "c.png">>, name |-> "c.png", size |-> 50] >>

\* C17: a record is grouped under the first segment of its path below the
\* storage root, a record under Android/media under the first three segments;
\* DCIM/a.jpg (100), DCIM/b.jpg (200) and Pictures/c.png (50) give exactly the
\* folders DCIM {2, 300} and Pictures {1, 50}.
C17_GroupingKey ==
  apc = "done"
    => /\ \A k \in 1..Len(agg_folders) :
            \A j \in 1..Len(agg_folders[k].files) :
              LET rel == SubSeq(agg_folders[k].files[j].path, Len(storage_root) + 1,
                                Len(agg_folders[k].files[j].path))
                  key == IF Len(rel) >= 3 /\ SubSeq(rel, 1, 2) = <<"Android", "media">>
                           THEN SubSeq(rel, 1, 3)
                           ELSE SubSeq(rel, 1, 1)
              IN  /\ agg_folders[k].name = key
                  /\ agg_folders[k].path = storage_root \o key
       /\ \A k1, k2 \in 1..Len(agg_folders) :
            k1 # k2 => agg_folders[k1].path # agg_folders[k2].path
       /\ agg_files = ScenarioFiles
            => [k \in 1..Len(agg_folders) |->
                  <<agg_folders[k].name, agg_folders[k].file_count, agg_folders[k].total_size>>]
                 = << <<<<"DCIM">>, 2, 300>>, <<<<"Pictures">>, 1, 50>> >>

\* Files of two applications under Android/media and a file directly under
\* Android have been aggregated into three folders.
C17_Witness ==
  /\ apc = "done"
  /\ {f.name : f \in Range(agg_folders)}
       = { <<"Android", "media", "com.whatsapp">>, <<"Android", "media", "org.telegram">>,
           <<"Android">> }

\* A folder list in the order of non-increasing file count.
SortedByFileCount(l) ==
  \A i, j \in 1..Len(l) : i < j => l[i].file_count >= l[j].file_count

\* The folders of the roots of a scan, in the order in which they were found.
RECURSIVE FoundFolders(_)
FoundFolders(ls) == IF ls = <<>> THEN <<>> ELSE Head(ls).folders \o FoundFolders(Tail(ls))

\* C18: the folder list aggregate_files_to_folders returns for a root, and the
\* combined folder list of the ScanResult, are each in the order of
\* non-increasing file count.
C18_SortedByFileCount ==
  /\ \A k \in 1..Len(listings) : SortedByFileCount(listings[k].folders)
  /\ spc = "done"
       => /\ SortedByFileCount(scan_result.folders)
          /\ {f.path : f \in Range(scan_result.folders)}
               = {f.path : f \in Range(FoundFolders(listings))}
          /\ Len(scan_result.folders) = Len(FoundFolders(listings))

\* A scan of two roots has returned; the folders of a root differ in their
\* file counts, and in the order in which the roots gave them the folders
\* were not sorted.
C18_Witness ==
  /\ spc = "done"
  /\ Len(storage_roots) = 2
  /\ ~SortedByFileCount(FoundFolders(listings))
  /\ \E k \in 1..Len(listings) :
       /\ Len(listings[k].folders) >= 3
       /\ listings[k].folders[1].file_count > listings[k].folders[Len(listings[k].folders)].file_count

\* C19: is_file_in_categories of scanner.py and of categories.py return true
\* iff the lower-cased extension of the name is in the table of a selected
\* known category, or 'other' is selected and the name has no extension or
\* one that no table holds; a name without an extension matches 'other' only.
C19_CategoryMatch ==
  kpc = "done"
    => LET has_ext == has_dot(filename)
           ext == dot(lower(last_part(filename)))
           in_selected == \E c \in categories \cap KnownCategories : ext \in CategoryExtensions(c)
           in_any == \E c \in KnownCategories : ext \in CategoryExtensions(c)
           expected == \/ has_ext /\ in_selected
                       \/ "other" \in categories /\ (~has_ext \/ ~in_any)
       IN  /\ verdict.scanner = expected
           /\ verdict.categories = expected
           /\ ~has_ext => (verdict.scanner <=> "other" \in categories)

\* A name with an upper-case extension of the media table has been matched
\* for the selection documents + other, and found not to belong to it.
C19_Witness ==
  /\ kpc = "done"
  /\ filename = "b.JPG"
  /\ categories = {"documents", "other"}
  /\ verdict = [scanner |-> FALSE, categories |-> FALSE]

\* The file lies in an excluded directory: its path holds the segments of an
\* entry of SKIP_DIRECTORIES as the path of one of its ancestor directories.
UnderExcludedDirectory(path) ==
  \E k \in 1..Len(SKIP_DIRECTORIES) :
    \E i \in 1..Len(path) :
      /\ i + Len(SKIP_DIRECTORIES[k]) - 1 < Len(path)
      /\ SubSeq(path, i, i + Len(SKIP_DIRECTORIES[k]) - 1) = SKIP_DIRECTORIES[k]

\* C20: with 'other' among the selected categories, every regular file under
\* a scanned root that is not under an excluded directory is returned by the
\* listing of the root, whatever its name, and every such file of a selected
\* category is in a folder of the scan result.
C20_OtherListsEverything ==
  (spc = "done" /\ "other" \in scan_categories)
    => \A k \in 1..Len(listings) :
         listings[k].ok
           => \A f \in Range(DeviceListing) :
                (IsPrefix(listings[k].root, f.path) /\ ~UnderExcludedDirectory(f.path))
                  => /\ f \in Range(listings[k].listed)
                     /\ is_file_in_categories(f.name, scan_categories)
                          => \E folder \in Range(scan_result.folders) : f \in Range(folder.files)

\* The line has the three fields size|mtime|path: it holds two delimiters.
HasThreeFields(line) ==
  \E i, j \in 1..Len(line) : i < j /\ line[i] = "|" /\ line[j] = "|"

FirstDelimiter(line) ==
  CHOOSE i \in 1..Len(line) : line[i] = "|" /\ \A k \in 1..(i - 1) : line[k] # "|"

SecondDelimiter(line) ==
  CHOOSE j \in (FirstDelimiter(line) + 1)..Len(line) :
    line[j] = "|" /\ \A k \in (FirstDelimiter(line) + 1)..(j - 1) : line[k] # "|"

SizeField(line) == SubSeq(line, 1, FirstDelimiter(line) - 1)
TimeField(line) == SubSeq(line, FirstDelimiter(line) + 1, SecondDelimiter(line) - 1)
PathField(line) == SubSeq(line, SecondDelimiter(line) + 1, Len(line))

\* The text is an integer: digits, after an optional sign.
Unsigned(s) == IF s # <<>> /\ s[1] \in {"-", "+"} THEN Tail(s) ELSE s

IsIntegerText(s) == Unsigned(s) # <<>> /\ \A i \in 1..Len(Unsigned(s)) : Unsigned(s)[i] \in DIGITS

IntegerOfText(s) ==
  IF s[1] = "-" THEN 0 - digits_value(Unsigned(s)) ELSE digits_value(Unsigned(s))

WellFormedLine(line) == HasThreeFields(line) /\ IsIntegerText(SizeField(line))

\* The text up to the first c, all of it if it holds no c.
UpToFirst(s, c) ==
  IF \E i \in 1..Len(s) : s[i] = c
    THEN SubSeq(s, 1, (CHOOSE i \in 1..Len(s) : s[i] = c /\ \A k \in 1..(i - 1) : s[k] # c) - 1)
    ELSE s

\* The last segment of a path: what follows its last '/'.
LastSegment(path) ==
  IF \E i \in 1..Len(path) : path[i] = "/"
    THEN SubSeq(path,
                (CHOOSE i \in 1..Len(path) :
                   path[i] = "/" /\ \A k \in (i + 1)..Len(path) : path[k] # "/") + 1,
                Len(path))
    ELSE path

RecordOfLine(line) ==
  [path   |-> PathField(line),
   name   |-> LastSegment(PathField(line)),
   size   |-> IntegerOfText(SizeField(line)),
   mtime  |-> UpToFirst(TimeField(line), "."),
   is_dir |-> FALSE]

WellFormedLines(printed) == SelectSeq(printed, WellFormedLine)

RecordsOfLines(wf) == [k \in 1..Len(wf) |-> RecordOfLine(wf[k])]

\* C21: parsing the output yields one record per well-formed line (three
\* fields, an integer size), in output order: the path is everything after
\* the second delimiter, the name its last segment, the time is cut at its
\* first '.'; the other lines are skipped and change no record.
C21_ParseRecords ==
  ppc = "done" => parsed_files = RecordsOfLines(WellFormedLines(printed_lines))


\* The roots of a scan whose listing command succeeded, in the order of the scan.
RECURSIVE SucceededRoots(_, _)
SucceededRoots(roots, ls) ==
  IF roots = <<>> THEN <<>>
  ELSE (IF Head(ls).ok THEN <<Head(roots)>> ELSE <<>>)
         \o SucceededRoots(Tail(roots), Tail(ls))

\* The folders found by listing each of the roots with success, root by root.
RECURSIVE FoldersOfRoots(_, _)
FoldersOfRoots(roots, cats) ==
  IF roots = <<>> THEN <<>>
  ELSE LET root == Head(roots)
           kept == SelectSeq(find_media_files(root.path, scan_extensions_of(cats),
                                              SKIP_DIRECTORIES, TRUE),
                             LAMBDA f : is_file_in_categories(f.name, cats))
       IN  (IF kept # <<>>
              THEN aggregate_files_to_folders(kept, root.path, root.storage_type)
              ELSE <<>>)
             \o FoldersOfRoots(Tail(roots), cats)

\* The files of a list of folders, folder by folder.
RECURSIVE FilesOfFolders(_)
FilesOfFolders(l) == IF l = <<>> THEN <<>> ELSE Head(l).files \o FilesOfFolders(Tail(l))

\* C22: a root whose listing command fails (non-zero status or timeout) gives
\* the empty list and no folder; the scan goes through every root and
\* returns; its folders are exactly those of a scan of the roots whose
\* listing succeeded, and its totals are the totals of those folders.
C22_FailedRootsSkipped ==
  /\ \A k \in 1..Len(listings) :
       ~listings[k].ok => listings[k].listed = <<>> /\ listings[k].folders = <<>>
  /\ spc = "done"
       => /\ Len(listings) = Len(storage_roots)
          /\ \A k \in 1..Len(listings) : listings[k].root = storage_roots[k].path
          /\ LET expected == sort_by_total_count_desc(
                               FoldersOfRoots(SucceededRoots(storage_roots, listings),
                                              scan_categories))
             IN  /\ scan_result.folders = expected
                 /\ \A i \in 1..Len(scan_result.folders) :
                      \E k \in 1..Len(listings) :
                        listings[k].ok /\ listings[k].root = scan_result.folders[i].storage_root
                 /\ scan_result.total_files = Len(FilesOfFolders(expected))
                 /\ scan_result.total_size
                      = SumField(FilesOfFolders(expected), "size")
                 /\ scan_result.total_photos = SumField(expected, "photo_count")
                 /\ scan_result.total_videos = SumField(expected, "video_count")

\* A scan of two roots has returned: the listing of one root failed, the
\* listing of the other succeeded and gave folders, which are the result.
C22_Witness ==
  /\ spc = "done"
  /\ Len(storage_roots) = 2
  /\ \E j, k \in 1..Len(listings) :
       /\ ~listings[j].ok
       /\ listings[k].ok /\ listings[k].folders # <<>>
  /\ scan_result.folders # <<>>


\* The canonical (symlink-resolved) path of a path of the device.
CanonicalPath(dev, path) ==
  IF \E c \in CardNames : path = potential_path_of(c) THEN dev.target[path[2]] ELSE path

\* No two roots of the map have the same canonical path on the device.
CanonicalPathsUnique(dev, d) ==
  \A i, j \in 1..Len(d) :
    i # j => CanonicalPath(dev, d[i].path) # CanonicalPath(dev, d[j].path)

\* The call has made the symlink resolution of a line, with the given outcome.
Resolved(line, outcome) ==
  \E k \in 1..Len(probes) :
    probes[k].command = "readlink" /\ probes[k].line = line /\ probes[k].outcome = outcome

\* The outcome of the symlink resolution the call has made for a line.
ResolutionOutcome(line) ==
  IF \E o \in ReadlinkOutcomes : Resolved(line, o)
    THEN CHOOSE o \in ReadlinkOutcomes : Resolved(line, o)
    ELSE "none"

\* Every symlink resolution the call has made has printed a target.
AllResolutionsPrinted ==
  \A k \in 1..Len(probes) : probes[k].command = "readlink" => probes[k].outcome = "printed"

\* The path the call takes for the canonical path of a root it returns: the
\* printed target, or the root's own path when nothing was printed or the
\* resolution failed.
TakenForCanonical(path) ==
  IF \E c \in CardNames : path = potential_path_of(c)
    THEN IF ResolutionOutcome(path[2]) = "printed" THEN CanonicalPath(device, path) ELSE path
    ELSE path

\* C23 (as stated): no two storage roots returned by get_storage_roots
\* resolve to the same canonical path on the device.
C23_CanonicalUnique ==
  gpc = "done" => CanonicalPathsUnique(device, roots_map)

\* C23 (amended): no two returned roots have the same path taken for their
\* canonical path (the printed target, or the own path of an entry whose
\* resolution failed or printed nothing); when every symlink resolution of
\* the call has printed a target, no two returned roots resolve to the same
\* canonical path, so a card exposed under two paths is returned once.
C23_ResolvedUnique ==
  gpc = "done"
    => /\ \A i, j \in 1..Len(roots_map) :
            i # j => /\ roots_map[i].path # roots_map[j].path
                     /\ TakenForCanonical(roots_map[i].path)
                          # TakenForCanonical(roots_map[j].path)
       /\ seen_real_paths = {TakenForCanonical(roots_map[i].path) : i \in 1..Len(roots_map)}
       /\ AllResolutionsPrinted => CanonicalPathsUnique(device, roots_map)

\* A call has returned on a device whose two entries under /storage are
\* directories with the same canonical path; every resolution has printed
\* its target, both directory checks were made or skipped, and one of the
\* two entries is returned.
C23_Witness ==
  /\ gpc = "done"
  /\ Len(device.ls_lines) = 4
  /\ device.target["1234-5678"] = device.target["ABCD-EF01"]
  /\ \A c \in CardNames : device.is_dir[c]
  /\ AllResolutionsPrinted
  /\ Len(roots_map) = 2
  /\ roots_map[2].path = potential_path_of("1234-5678")
  /\ Resolved("ABCD-EF01", "printed")


\* The call has made the directory check of a line, with the given outcome.
DirectoryChecked(line, outcome) ==
  \E k \in 1..Len(probes) :
    probes[k].command = "test -d" /\ probes[k].line = line /\ probes[k].outcome = outcome

\* The lines of the listing of /storage that name an entry.
EntryLines == {device.ls_lines[k] : k \in 1..Len(device.ls_lines)} \ ({""} \cup PSEUDO_ENTRIES)

C25_OnlyConstructionAborts ==
  /\ pc = "init_failed"
       => /\ remoteCommands = <<>> /\ attempts = <<>> /\ callbacks = <<>>
          /\ to_sync = <<>> /\ already_exist = <<>>
  /\ pc # "raised"


\* C26: the local path derived from a remote path lies inside the
\* destination: it is the destination followed by at least one segment, also
\* for a remote path under none of the recognised storage prefixes.
C26_InsideDestination ==
  dpc = "done"
    => /\ IsPrefix(Destination, local_path)
       /\ Len(local_path) > Len(Destination)


\* C28: every folder of aggregate_files_to_folders is a proper ancestor of
\* each of its files: its path is a prefix of the file's path and shorter, so
\* it never equals the path of one of its files, also for a file directly in
\* the storage root or directly inside Android/media.
C28_FolderAboveFiles ==
  apc = "done"
    => \A k \in 1..Len(agg_folders) :
         \A j \in 1..Len(agg_folders[k].files) :
           /\ IsPrefix(agg_folders[k].path, agg_folders[k].files[j].path)
           /\ Len(agg_folders[k].path) < Len(agg_folders[k].files[j].path)


\* The records of a plan: to transfer, then already present.
PlanRecords(pl) == pl[1] \o pl[2]

\* The remote paths of the files lists of a list of folders.
ListedPaths(folder_list) == {f.path : f \in Range(FilesOfFolders(folder_list))}

\* C27: the plan analyze_folders builds for folders selected from one scan
\* result holds each remote file at most once, and only files of the files
\* lists of the selected folders.
C27_PlanOfSelection ==
  qpc = "done"
    => /\ \A i, j \in 1..Len(PlanRecords(planned)) :
            i # j => PlanRecords(planned)[i].remote_path # PlanRecords(planned)[j].remote_path
       /\ \A i \in 1..Len(PlanRecords(planned)) :
            PlanRecords(planned)[i].remote_path \in ListedPaths(selected)


\* C29: every started BackupWorker eventually emits its finished signal, and
\* it emits it once.
C29_FinishedOnce ==
  (wpc = "run") ~> (Len(finished_signals) = 1)

\* The BackupWorker.cancel() calls made while the thread was in run.
CancelsInRun == {k \in 1..Len(cancel_log) : cancel_log[k].at \in {"run", "call"}}

\* C30: no cancel request made after the thread has started and before the
\* run has finished is lost: once the manager exists its flag holds the
\* request, also when the request came before the manager existed, and a
\* run that has ended after such a request has emitted finished with status
\* Cancelled.
C30_CancelNeverLost ==
  /\ (CancelsInRun # {} /\ manager # "none" /\ wpc = "call") => manager_cancelled
  /\ (CancelsInRun # {} /\ wpc \in {"raised", "finished"})
       => /\ Len(finished_signals) = 1
          /\ finished_signals[1].status = "cancelled"

====
